---- MODULE Spec2Model ----
(***************************************************************************)
(* The node-type tables of the OpenAPI 3 and AsyncAPI 2 dialects           *)
(* (packages/core/src/types) and the resolution and validation algorithm   *)
(* that consumes them: which rule governs a child key of a node, which     *)
(* required keys a node misses, and which of its keys are not allowed.     *)
(*                                                                         *)
(* A key is a sequence of one-character strings, so that startsWith and    *)
(* the regular expressions of the tables are computed on its characters;   *)
(* Str(key) is the property name it spells.                                *)
(***************************************************************************)
EXTENDS Naturals, Sequences, FiniteSets, TLC

VARIABLES
  patched,       \* how many `X.properties.k = Y` statements of asyncapi2.ts have run
  bindingProps,  \* the properties of the four bindings node types
  exported,      \* "none", then "bindings" (AsyncApi2Bindings built), then "types"
  op,            \* the call in progress, or "idle"
  dialect,       \* the registry the call uses
  callType,      \* the node type the call is about
  callKey,       \* resolveChild: the child key
  callValue,     \* resolveChild: the child value; the checks: the node value
  result,        \* what the call returned
  built,         \* the node types the call constructed
  log,           \* SpecExtend: the statements `X.properties.k = Y` run so far
  workers,       \* SpecConcurrent: the call each traversal has in progress
  lastIndex,     \* the lastIndex of each module's responseCodeRegexp object
  traversal      \* SpecTraversal: the document being traversed and the nodes still open

vars ==
  <<patched, bindingProps, exported, op, dialect, callType, callKey, callValue, result,
    built, log, workers, lastIndex, traversal>>

-----------------------------------------------------------------------------
(* Property rules and what a resolution returns.                           *)

Undefined == [kind |-> "Undefined"]

\* `null`: the key is known and deliberately not validated
None == [kind |-> "None"]

\* 'Name': a reference to the node type registered under that name
Ref(name) == [kind |-> "Ref", name |-> name]

\* an inline scalar rule such as { type: 'string' }
Leaf(constraint) == [kind |-> "Leaf", constraint |-> constraint]

\* a function of (value, key), named after the definition that models it
Resolver(fn) == [kind |-> "Resolver", fn |-> fn]

\* a node type held by the object itself instead of by its name
Node(nodeType) == [kind |-> "Node", node |-> nodeType]

\* a fixed list of keys: `required: [...]`, `requiredOneOf: [...]`
KeyList(keys) == [kind |-> "Keys", keys |-> keys]

\* a function of the node value returning a list of keys
KeysFn(fn) == [kind |-> "KeysFn", fn |-> fn]

\* a type another module defines (json-schema-draft7.shared.js)
Imported(name) == [kind |-> "Imported", name |-> name]

Extension == [kind |-> "Extension"]

Reject == [kind |-> "Reject"]

NodeTypeDefaults ==
  [properties |-> <<>>, additionalProperties |-> Undefined, required |-> Undefined,
   requiredOneOf |-> Undefined, allowed |-> Undefined, extensionsPrefix |-> Undefined,
   container |-> "object", overrides |-> {}, kind |-> "NodeType"]

\* an object literal of type NodeType: the fields it does not write are undefined
NodeType(fields) == fields @@ NodeTypeDefaults

Range(seq) == {seq[i] : i \in DOMAIN seq}

-----------------------------------------------------------------------------
(* Strings as character sequences.                                         *)

RECURSIVE Str(_)
Str(chars) == IF chars = <<>> THEN "" ELSE Head(chars) \o Str(Tail(chars))

\* String.prototype.startsWith
StartsWith(chars, prefix) ==
  /\ Len(prefix) <= Len(chars)
  /\ SubSeq(chars, 1, Len(prefix)) = prefix

Digit == {"0", "1", "2", "3", "4", "5", "6", "7", "8", "9"}

UpperCase ==
  {"A", "B", "C", "D", "E", "F", "G", "H", "I", "J", "K", "L", "M",
   "N", "O", "P", "Q", "R", "S", "T", "U", "V", "W", "X", "Y", "Z"}

LowerCase ==
  {"a", "b", "c", "d", "e", "f", "g", "h", "i", "j", "k", "l", "m",
   "n", "o", "p", "q", "r", "s", "t", "u", "v", "w", "x", "y", "z"}

-----------------------------------------------------------------------------
(* Document values.                                                        *)

VUndefined == [kind |-> "undefined"]

VNull == [kind |-> "null"]

VBoolean(b) == [kind |-> "boolean", bool |-> b]

VNumber(n) == [kind |-> "number", num |-> n]

VString(chars) == [kind |-> "string", chars |-> chars]

VArray == [kind |-> "array"]

\* an object: its own keys, and the value of its `type` field (VUndefined without one)
VObject(keys, type) == [kind |-> "object", keys |-> keys, type |-> type]

\* Array.isArray(value)
IsArray(v) == v.kind = "array"

\* typeof value
TypeOf(v) ==
  CASE v.kind = "undefined" -> "undefined"
    [] v.kind = "boolean" -> "boolean"
    [] v.kind = "number" -> "number"
    [] v.kind = "string" -> "string"
    [] OTHER -> "object"

\* value?.type: undefined for null and undefined, and for a value with no such field
TypeField(v) == IF v.kind = "object" THEN v.type ELSE VUndefined

\* Object.keys(value) of a node
OwnKeys(v) == IF v.kind = "object" THEN v.keys ELSE {}

\* the case label a string value matches in `switch (value?.type)`
IsStr(v, name) == v.kind = "string" /\ Str(v.chars) = name

-----------------------------------------------------------------------------
(* What the tables import: the combinators of ./index.js and isMappingRef  *)
(* of ../ref-utils.js.                                                     *)

\* listOf(typeName, overrides): the node type of a sequence whose every element is
\* governed by typeName. Its one rule is a reference to typeName; of the overrides
\* (descriptive fields only) the names are kept.
listOf(typeName, overrides) ==
  NodeType([container |-> "sequence", additionalProperties |-> Ref(typeName),
            overrides |-> overrides])

\* mapOf(typeName, overrides): the node type of a string-keyed mapping whose every
\* value is governed by typeName.
mapOf(typeName, overrides) ==
  NodeType([container |-> "mapping", additionalProperties |-> Ref(typeName),
            overrides |-> overrides])

\* isMappingRef(value): the value is shaped as a pointer token, not a bare alias
isMappingRef(v) ==
  /\ v.kind = "string"
  /\ \/ StartsWith(v.chars, <<"#">>)
     \/ "/" \in Range(v.chars)

-----------------------------------------------------------------------------
(* oas3.ts                                                                  *)

\* responseCodeRegexp.test(s), responseCodeRegexp = /^[0-9][0-9Xx]{2}$/
Oas3_responseCodeRegexp(s) ==
  /\ Len(s) = 3
  /\ s[1] \in Digit
  /\ s[2] \in Digit \cup {"X", "x"}
  /\ s[3] \in Digit \cup {"X", "x"}

Oas3_Root ==
  NodeType([
    properties |->
      ("openapi" :> None
       @@ "info" :> Ref("Info")
       @@ "servers" :> Ref("ServerList")
       @@ "security" :> Ref("SecurityRequirementList")
       @@ "tags" :> Ref("TagList")
       @@ "externalDocs" :> Ref("ExternalDocs")
       @@ "paths" :> Ref("Paths")
       @@ "components" :> Ref("Components")
       @@ "x-webhooks" :> Ref("WebhooksMap")
       @@ "x-tagGroups" :> Ref("TagGroups")
       @@ "x-ignoredHeaderParameters" :> Leaf([type |-> "array", items |-> [type |-> "string"]])),
    required |-> KeyList(<<"openapi", "paths", "info">>),
    extensionsPrefix |-> <<"x", "-">>
  ])

Oas3_Tag ==
  NodeType([
    properties |->
      ("name" :> Leaf([type |-> "string"])
       @@ "description" :> Leaf([type |-> "string"])
       @@ "externalDocs" :> Ref("ExternalDocs")
       @@ "x-traitTag" :> Leaf([type |-> "boolean"])
       @@ "x-displayName" :> Leaf([type |-> "string"])),
    required |-> KeyList(<<"name">>),
    extensionsPrefix |-> <<"x", "-">>
  ])

Oas3_TagGroup ==
  NodeType([
    properties |->
      ("name" :> Leaf([type |-> "string"])
       @@ "tags" :> Leaf([type |-> "array", items |-> [type |-> "string"]])),
    extensionsPrefix |-> <<"x", "-">>
  ])

Oas3_ExternalDocs ==
  NodeType([
    properties |->
      ("description" :> Leaf([type |-> "string"])
       @@ "url" :> Leaf([type |-> "string"])),
    required |-> KeyList(<<"url">>),
    extensionsPrefix |-> <<"x", "-">>
  ])

Oas3_Server ==
  NodeType([
    properties |->
      ("url" :> Leaf([type |-> "string"])
       @@ "description" :> Leaf([type |-> "string"])
       @@ "variables" :> Ref("ServerVariablesMap")),
    required |-> KeyList(<<"url">>),
    extensionsPrefix |-> <<"x", "-">>
  ])

Oas3_ServerVariable ==
  NodeType([
    properties |->
      ("enum" :> Leaf([type |-> "array", items |-> [type |-> "string"]])
       @@ "default" :> Leaf([type |-> "string"])
       @@ "description" :> Leaf([type |-> "string"])),
    required |-> KeyList(<<"default">>),
    extensionsPrefix |-> <<"x", "-">>
  ])

Oas3_SecurityRequirement ==
  NodeType([
    properties |-> <<>>,
    additionalProperties |-> Leaf([type |-> "array", items |-> [type |-> "string"]])
  ])

\* Info as it would be without its `x-logo` property
Oas3_Info_WithoutLogo ==
  NodeType([
    properties |->
      ("title" :> Leaf([type |-> "string"])
       @@ "version" :> Leaf([type |-> "string"])
       @@ "description" :> Leaf([type |-> "string"])
       @@ "termsOfService" :> Leaf([type |-> "string"])
       @@ "contact" :> Ref("Contact")
       @@ "license" :> Ref("License")),
    required |-> KeyList(<<"title", "version">>),
    extensionsPrefix |-> <<"x", "-">>
  ])

Oas3_Info ==
  NodeType([
    properties |->
      ("title" :> Leaf([type |-> "string"])
       @@ "version" :> Leaf([type |-> "string"])
       @@ "description" :> Leaf([type |-> "string"])
       @@ "termsOfService" :> Leaf([type |-> "string"])
       @@ "contact" :> Ref("Contact")
       @@ "license" :> Ref("License")
       @@ "x-logo" :> Ref("Logo")),
    required |-> KeyList(<<"title", "version">>),
    extensionsPrefix |-> <<"x", "-">>
  ])

Oas3_Logo ==
  NodeType([
    properties |->
      ("url" :> Leaf([type |-> "string"])
       @@ "altText" :> Leaf([type |-> "string"])
       @@ "backgroundColor" :> Leaf([type |-> "string"])
       @@ "href" :> Leaf([type |-> "string"]))
  ])

Oas3_Contact ==
  NodeType([
    properties |->
      ("name" :> Leaf([type |-> "string"])
       @@ "url" :> Leaf([type |-> "string"])
       @@ "email" :> Leaf([type |-> "string"])),
    extensionsPrefix |-> <<"x", "-">>
  ])

Oas3_License ==
  NodeType([
    properties |->
      ("name" :> Leaf([type |-> "string"])
       @@ "url" :> Leaf([type |-> "string"])),
    required |-> KeyList(<<"name">>),
    extensionsPrefix |-> <<"x", "-">>
  ])

\* Paths.additionalProperties as it would be without the test of the key, as WebhooksMap has it
Oas3_Paths_additionalProperties_AnyKey(value, key) ==
  Ref("PathItem")

\* Paths.additionalProperties
Oas3_Paths_additionalProperties(value, key) ==
  IF StartsWith(key, <<"/">>) THEN Ref("PathItem") ELSE Undefined

Oas3_Paths ==
  NodeType([
    properties |-> <<>>,
    additionalProperties |-> Resolver("Oas3_Paths_additionalProperties")
  ])

\* WebhooksMap.additionalProperties as it would be with a name no table registers
Oas3_WebhooksMap_additionalProperties_Misspelt(value, key) ==
  Ref("PathItems")

\* WebhooksMap.additionalProperties
Oas3_WebhooksMap_additionalProperties(value, key) ==
  Ref("PathItem")

Oas3_WebhooksMap ==
  NodeType([
    properties |-> <<>>,
    additionalProperties |-> Resolver("Oas3_WebhooksMap_additionalProperties")
  ])

Oas3_PathItem ==
  NodeType([
    properties |->
      ("$ref" :> Leaf([type |-> "string"])
       @@ "servers" :> Ref("ServerList")
       @@ "parameters" :> Ref("ParameterList")
       @@ "summary" :> Leaf([type |-> "string"])
       @@ "description" :> Leaf([type |-> "string"])
       @@ "get" :> Ref("Operation")
       @@ "put" :> Ref("Operation")
       @@ "post" :> Ref("Operation")
       @@ "delete" :> Ref("Operation")
       @@ "options" :> Ref("Operation")
       @@ "head" :> Ref("Operation")
       @@ "patch" :> Ref("Operation")
       @@ "trace" :> Ref("Operation")),
    extensionsPrefix |-> <<"x", "-">>
  ])

\* Parameter as it would be with `in` left out of `required`
Oas3_Parameter_NameOnly ==
  NodeType([
    properties |->
      ("name" :> Leaf([type |-> "string"])
       @@ "in" :> Leaf([enum |-> <<"query", "header", "path", "cookie">>])
       @@ "description" :> Leaf([type |-> "string"])
       @@ "required" :> Leaf([type |-> "boolean"])
       @@ "deprecated" :> Leaf([type |-> "boolean"])
       @@ "allowEmptyValue" :> Leaf([type |-> "boolean"])
       @@ "style" :> Leaf([enum |-> <<"form", "simple", "label", "matrix", "spaceDelimited", "pipeDelimited", "deepObject">>])
       @@ "explode" :> Leaf([type |-> "boolean"])
       @@ "allowReserved" :> Leaf([type |-> "boolean"])
       @@ "schema" :> Ref("Schema")
       @@ "example" :> Leaf([isExample |-> TRUE])
       @@ "examples" :> Ref("ExamplesMap")
       @@ "content" :> Ref("MediaTypesMap")),
    required |-> KeyList(<<"name">>),
    requiredOneOf |-> KeyList(<<"schema", "content">>),
    extensionsPrefix |-> <<"x", "-">>
  ])

Oas3_Parameter ==
  NodeType([
    properties |->
      ("name" :> Leaf([type |-> "string"])
       @@ "in" :> Leaf([enum |-> <<"query", "header", "path", "cookie">>])
       @@ "description" :> Leaf([type |-> "string"])
       @@ "required" :> Leaf([type |-> "boolean"])
       @@ "deprecated" :> Leaf([type |-> "boolean"])
       @@ "allowEmptyValue" :> Leaf([type |-> "boolean"])
       @@ "style" :> Leaf([enum |-> <<"form", "simple", "label", "matrix", "spaceDelimited", "pipeDelimited", "deepObject">>])
       @@ "explode" :> Leaf([type |-> "boolean"])
       @@ "allowReserved" :> Leaf([type |-> "boolean"])
       @@ "schema" :> Ref("Schema")
       @@ "example" :> Leaf([isExample |-> TRUE])
       @@ "examples" :> Ref("ExamplesMap")
       @@ "content" :> Ref("MediaTypesMap")),
    required |-> KeyList(<<"name", "in">>),
    requiredOneOf |-> KeyList(<<"schema", "content">>),
    extensionsPrefix |-> <<"x", "-">>
  ])

Oas3_Operation ==
  NodeType([
    properties |->
      ("tags" :> Leaf([type |-> "array", items |-> [type |-> "string"]])
       @@ "summary" :> Leaf([type |-> "string"])
       @@ "description" :> Leaf([type |-> "string"])
       @@ "externalDocs" :> Ref("ExternalDocs")
       @@ "operationId" :> Leaf([type |-> "string"])
       @@ "parameters" :> Ref("ParameterList")
       @@ "security" :> Ref("SecurityRequirementList")
       @@ "servers" :> Ref("ServerList")
       @@ "requestBody" :> Ref("RequestBody")
       @@ "responses" :> Ref("Responses")
       @@ "deprecated" :> Leaf([type |-> "boolean"])
       @@ "callbacks" :> Ref("CallbacksMap")
       @@ "x-codeSamples" :> Ref("XCodeSampleList")
       @@ "x-code-samples" :> Ref("XCodeSampleList")
       @@ "x-hideTryItPanel" :> Leaf([type |-> "boolean"])),
    required |-> KeyList(<<"responses">>),
    extensionsPrefix |-> <<"x", "-">>
  ])

Oas3_XCodeSample ==
  NodeType([
    properties |->
      ("lang" :> Leaf([type |-> "string"])
       @@ "label" :> Leaf([type |-> "string"])
       @@ "source" :> Leaf([type |-> "string"]))
  ])

Oas3_RequestBody ==
  NodeType([
    properties |->
      ("description" :> Leaf([type |-> "string"])
       @@ "required" :> Leaf([type |-> "boolean"])
       @@ "content" :> Ref("MediaTypesMap")),
    required |-> KeyList(<<"content">>),
    extensionsPrefix |-> <<"x", "-">>
  ])

Oas3_MediaTypesMap ==
  NodeType([
    properties |-> <<>>,
    additionalProperties |-> Ref("MediaType")
  ])

Oas3_MediaType ==
  NodeType([
    properties |->
      ("schema" :> Ref("Schema")
       @@ "example" :> Leaf([isExample |-> TRUE])
       @@ "examples" :> Ref("ExamplesMap")
       @@ "encoding" :> Ref("EncodingMap")),
    extensionsPrefix |-> <<"x", "-">>
  ])

Oas3_Example ==
  NodeType([
    properties |->
      ("value" :> Leaf([resolvable |-> FALSE])
       @@ "summary" :> Leaf([type |-> "string"])
       @@ "description" :> Leaf([type |-> "string"])
       @@ "externalValue" :> Leaf([type |-> "string"])),
    extensionsPrefix |-> <<"x", "-">>
  ])

Oas3_Encoding ==
  NodeType([
    properties |->
      ("contentType" :> Leaf([type |-> "string"])
       @@ "headers" :> Ref("HeadersMap")
       @@ "style" :> Leaf([enum |-> <<"form", "simple", "label", "matrix", "spaceDelimited", "pipeDelimited", "deepObject">>])
       @@ "explode" :> Leaf([type |-> "boolean"])
       @@ "allowReserved" :> Leaf([type |-> "boolean"])),
    extensionsPrefix |-> <<"x", "-">>
  ])

Oas3_EnumDescriptions ==
  NodeType([
    properties |-> <<>>,
    additionalProperties |-> Leaf([type |-> "string"])
  ])

\* Header as it would be without its `requiredOneOf`
Oas3_Header_WithoutRequiredOneOf ==
  NodeType([
    properties |->
      ("description" :> Leaf([type |-> "string"])
       @@ "required" :> Leaf([type |-> "boolean"])
       @@ "deprecated" :> Leaf([type |-> "boolean"])
       @@ "allowEmptyValue" :> Leaf([type |-> "boolean"])
       @@ "style" :> Leaf([enum |-> <<"form", "simple", "label", "matrix", "spaceDelimited", "pipeDelimited", "deepObject">>])
       @@ "explode" :> Leaf([type |-> "boolean"])
       @@ "allowReserved" :> Leaf([type |-> "boolean"])
       @@ "schema" :> Ref("Schema")
       @@ "example" :> Leaf([isExample |-> TRUE])
       @@ "examples" :> Ref("ExamplesMap")
       @@ "content" :> Ref("MediaTypesMap")),
    extensionsPrefix |-> <<"x", "-">>
  ])

Oas3_Header ==
  NodeType([
    properties |->
      ("description" :> Leaf([type |-> "string"])
       @@ "required" :> Leaf([type |-> "boolean"])
       @@ "deprecated" :> Leaf([type |-> "boolean"])
       @@ "allowEmptyValue" :> Leaf([type |-> "boolean"])
       @@ "style" :> Leaf([enum |-> <<"form", "simple", "label", "matrix", "spaceDelimited", "pipeDelimited", "deepObject">>])
       @@ "explode" :> Leaf([type |-> "boolean"])
       @@ "allowReserved" :> Leaf([type |-> "boolean"])
       @@ "schema" :> Ref("Schema")
       @@ "example" :> Leaf([isExample |-> TRUE])
       @@ "examples" :> Ref("ExamplesMap")
       @@ "content" :> Ref("MediaTypesMap")),
    requiredOneOf |-> KeyList(<<"schema", "content">>),
    extensionsPrefix |-> <<"x", "-">>
  ])

\* Responses.additionalProperties
Oas3_Responses_additionalProperties(value, key) ==
  IF Oas3_responseCodeRegexp(key) THEN Ref("Response") ELSE Undefined

\* Responses as it would be without its `default` property
Oas3_Responses_WithoutDefault ==
  NodeType([
    properties |-> <<>>,
    additionalProperties |-> Resolver("Oas3_Responses_additionalProperties")
  ])

Oas3_Responses ==
  NodeType([
    properties |->
      ("default" :> Ref("Response")),
    additionalProperties |-> Resolver("Oas3_Responses_additionalProperties")
  ])

Oas3_Response ==
  NodeType([
    properties |->
      ("description" :> Leaf([type |-> "string"])
       @@ "headers" :> Ref("HeadersMap")
       @@ "content" :> Ref("MediaTypesMap")
       @@ "links" :> Ref("LinksMap")
       @@ "x-summary" :> Leaf([type |-> "string"])),
    required |-> KeyList(<<"description">>),
    extensionsPrefix |-> <<"x", "-">>
  ])

Oas3_Link ==
  NodeType([
    properties |->
      ("operationRef" :> Leaf([type |-> "string"])
       @@ "operationId" :> Leaf([type |-> "string"])
       @@ "parameters" :> None
       @@ "requestBody" :> None
       @@ "description" :> Leaf([type |-> "string"])
       @@ "server" :> Ref("Server")),
    extensionsPrefix |-> <<"x", "-">>
  ])

\* Schema.items as it would be without the test of the value
Oas3_Schema_items_AlwaysList(value, key) ==
  Node(listOf("Schema", {}))

\* Schema.items
Oas3_Schema_items(value, key) ==
  IF IsArray(value) THEN Node(listOf("Schema", {})) ELSE Ref("Schema")

\* Schema.additionalProperties
Oas3_Schema_additionalProperties(value, key) ==
  IF TypeOf(value) = "boolean" THEN Leaf([type |-> "boolean"]) ELSE Ref("Schema")

Oas3_Schema ==
  NodeType([
    properties |->
      ("externalDocs" :> Ref("ExternalDocs")
       @@ "discriminator" :> Ref("Discriminator")
       @@ "title" :> Leaf([type |-> "string"])
       @@ "multipleOf" :> Leaf([type |-> "number", minimum |-> 0])
       @@ "maximum" :> Leaf([type |-> "number"])
       @@ "minimum" :> Leaf([type |-> "number"])
       @@ "exclusiveMaximum" :> Leaf([type |-> "boolean"])
       @@ "exclusiveMinimum" :> Leaf([type |-> "boolean"])
       @@ "maxLength" :> Leaf([type |-> "integer", minimum |-> 0])
       @@ "minLength" :> Leaf([type |-> "integer", minimum |-> 0])
       @@ "pattern" :> Leaf([type |-> "string"])
       @@ "maxItems" :> Leaf([type |-> "integer", minimum |-> 0])
       @@ "minItems" :> Leaf([type |-> "integer", minimum |-> 0])
       @@ "uniqueItems" :> Leaf([type |-> "boolean"])
       @@ "maxProperties" :> Leaf([type |-> "integer", minimum |-> 0])
       @@ "minProperties" :> Leaf([type |-> "integer", minimum |-> 0])
       @@ "required" :> Leaf([type |-> "array", items |-> [type |-> "string"]])
       @@ "enum" :> Leaf([type |-> "array"])
       @@ "type" :> Leaf([enum |-> <<"object", "array", "string", "number", "integer", "boolean">>])
       @@ "allOf" :> Node(listOf("Schema", {}))
       @@ "anyOf" :> Node(listOf("Schema", {}))
       @@ "oneOf" :> Node(listOf("Schema", {}))
       @@ "not" :> Ref("Schema")
       @@ "properties" :> Ref("SchemaProperties")
       @@ "items" :> Resolver("Oas3_Schema_items")
       @@ "additionalProperties" :> Resolver("Oas3_Schema_additionalProperties")
       @@ "description" :> Leaf([type |-> "string"])
       @@ "format" :> Leaf([type |-> "string"])
       @@ "default" :> None
       @@ "nullable" :> Leaf([type |-> "boolean"])
       @@ "readOnly" :> Leaf([type |-> "boolean"])
       @@ "writeOnly" :> Leaf([type |-> "boolean"])
       @@ "xml" :> Ref("Xml")
       @@ "example" :> Leaf([isExample |-> TRUE])
       @@ "deprecated" :> Leaf([type |-> "boolean"])
       @@ "x-tags" :> Leaf([type |-> "array", items |-> [type |-> "string"]])
       @@ "x-additionalPropertiesName" :> Leaf([type |-> "string"])
       @@ "x-explicitMappingOnly" :> Leaf([type |-> "boolean"])),
    extensionsPrefix |-> <<"x", "-">>
  ])

Oas3_Xml ==
  NodeType([
    properties |->
      ("name" :> Leaf([type |-> "string"])
       @@ "namespace" :> Leaf([type |-> "string"])
       @@ "prefix" :> Leaf([type |-> "string"])
       @@ "attribute" :> Leaf([type |-> "boolean"])
       @@ "wrapped" :> Leaf([type |-> "boolean"])),
    extensionsPrefix |-> <<"x", "-">>
  ])

Oas3_SchemaProperties ==
  NodeType([
    properties |-> <<>>,
    additionalProperties |-> Ref("Schema")
  ])

\* DiscriminatorMapping.additionalProperties as it would be without the test of the value
Oas3_DiscriminatorMapping_additionalProperties_AlwaysAlias(value, key) ==
  Leaf([type |-> "string"])

\* DiscriminatorMapping.additionalProperties
Oas3_DiscriminatorMapping_additionalProperties(value, key) ==
  IF isMappingRef(value)
  THEN Leaf([type |-> "string", directResolveAs |-> "Schema"])
  ELSE Leaf([type |-> "string"])

Oas3_DiscriminatorMapping ==
  NodeType([
    properties |-> <<>>,
    additionalProperties |-> Resolver("Oas3_DiscriminatorMapping_additionalProperties")
  ])

\* Discriminator as it would be with `mapping` holding the node type instead of its name
Oas3_Discriminator_MappingInPlace ==
  NodeType([
    properties |->
      ("propertyName" :> Leaf([type |-> "string"])
       @@ "mapping" :> Node(Oas3_DiscriminatorMapping)),
    required |-> KeyList(<<"propertyName">>),
    extensionsPrefix |-> <<"x", "-">>
  ])

Oas3_Discriminator ==
  NodeType([
    properties |->
      ("propertyName" :> Leaf([type |-> "string"])
       @@ "mapping" :> Ref("DiscriminatorMapping")),
    required |-> KeyList(<<"propertyName">>),
    extensionsPrefix |-> <<"x", "-">>
  ])

Oas3_Components ==
  NodeType([
    properties |->
      ("parameters" :> Ref("NamedParameters")
       @@ "schemas" :> Ref("NamedSchemas")
       @@ "responses" :> Ref("NamedResponses")
       @@ "examples" :> Ref("NamedExamples")
       @@ "requestBodies" :> Ref("NamedRequestBodies")
       @@ "headers" :> Ref("NamedHeaders")
       @@ "securitySchemes" :> Ref("NamedSecuritySchemes")
       @@ "links" :> Ref("NamedLinks")
       @@ "callbacks" :> Ref("NamedCallbacks")),
    extensionsPrefix |-> <<"x", "-">>
  ])

Oas3_ImplicitFlow ==
  NodeType([
    properties |->
      ("refreshUrl" :> Leaf([type |-> "string"])
       @@ "scopes" :> Leaf([type |-> "object", additionalProperties |-> [type |-> "string"]])
       @@ "authorizationUrl" :> Leaf([type |-> "string"])),
    required |-> KeyList(<<"authorizationUrl", "scopes">>),
    extensionsPrefix |-> <<"x", "-">>
  ])

Oas3_PasswordFlow ==
  NodeType([
    properties |->
      ("refreshUrl" :> Leaf([type |-> "string"])
       @@ "scopes" :> Leaf([type |-> "object", additionalProperties |-> [type |-> "string"]])
       @@ "tokenUrl" :> Leaf([type |-> "string"])),
    required |-> KeyList(<<"tokenUrl", "scopes">>),
    extensionsPrefix |-> <<"x", "-">>
  ])

Oas3_ClientCredentials ==
  NodeType([
    properties |->
      ("refreshUrl" :> Leaf([type |-> "string"])
       @@ "scopes" :> Leaf([type |-> "object", additionalProperties |-> [type |-> "string"]])
       @@ "tokenUrl" :> Leaf([type |-> "string"])),
    required |-> KeyList(<<"tokenUrl", "scopes">>),
    extensionsPrefix |-> <<"x", "-">>
  ])

\* AuthorizationCode['x-usePkce'] as it would be without its else branch
Oas3_AuthorizationCode_x_usePkce_BooleanOnly(value, key) ==
  IF TypeOf(value) = "boolean" THEN Leaf([type |-> "boolean"]) ELSE Undefined

\* AuthorizationCode.x-usePkce
Oas3_AuthorizationCode_x_usePkce(value, key) ==
  IF TypeOf(value) = "boolean" THEN Leaf([type |-> "boolean"]) ELSE Ref("XUsePkce")

Oas3_AuthorizationCode ==
  NodeType([
    properties |->
      ("refreshUrl" :> Leaf([type |-> "string"])
       @@ "authorizationUrl" :> Leaf([type |-> "string"])
       @@ "scopes" :> Leaf([type |-> "object", additionalProperties |-> [type |-> "string"]])
       @@ "tokenUrl" :> Leaf([type |-> "string"])
       @@ "x-usePkce" :> Resolver("Oas3_AuthorizationCode_x_usePkce")),
    required |-> KeyList(<<"authorizationUrl", "tokenUrl", "scopes">>),
    extensionsPrefix |-> <<"x", "-">>
  ])

Oas3_OAuth2Flows ==
  NodeType([
    properties |->
      ("implicit" :> Ref("ImplicitFlow")
       @@ "password" :> Ref("PasswordFlow")
       @@ "clientCredentials" :> Ref("ClientCredentials")
       @@ "authorizationCode" :> Ref("AuthorizationCode")),
    extensionsPrefix |-> <<"x", "-">>
  ])

\* SecurityScheme.required as it would be with the apiKey case of the AsyncAPI table
Oas3_SecurityScheme_required_ApiKeyWithoutName(value) ==
  LET type == TypeField(value) IN
  CASE IsStr(type, "apiKey") -> <<"type", "in">>
    [] IsStr(type, "http") -> <<"type", "scheme">>
    [] IsStr(type, "oauth2") -> <<"type", "flows">>
    [] IsStr(type, "openIdConnect") -> <<"type", "openIdConnectUrl">>
    [] OTHER -> <<"type">>

\* SecurityScheme.required
Oas3_SecurityScheme_required(value) ==
  LET type == TypeField(value) IN
  CASE IsStr(type, "apiKey") -> <<"type", "name", "in">>
    [] IsStr(type, "http") -> <<"type", "scheme">>
    [] IsStr(type, "oauth2") -> <<"type", "flows">>
    [] IsStr(type, "openIdConnect") -> <<"type", "openIdConnectUrl">>
    [] OTHER -> <<"type">>

\* SecurityScheme.allowed
Oas3_SecurityScheme_allowed(value) ==
  LET type == TypeField(value) IN
  CASE IsStr(type, "apiKey") -> <<"type", "name", "in", "description">>
    [] IsStr(type, "http") -> <<"type", "scheme", "bearerFormat", "description">>
    [] IsStr(type, "oauth2") -> <<"type", "flows", "description">>
    [] IsStr(type, "openIdConnect") -> <<"type", "openIdConnectUrl", "description">>
    [] OTHER -> <<"type", "description">>

\* SecurityScheme as it would be without its extensionsPrefix
Oas3_SecurityScheme_WithoutExtensions ==
  NodeType([
    properties |->
      ("type" :> Leaf([enum |-> <<"apiKey", "http", "oauth2", "openIdConnect">>])
       @@ "description" :> Leaf([type |-> "string"])
       @@ "name" :> Leaf([type |-> "string"])
       @@ "in" :> Leaf([type |-> "string", enum |-> <<"query", "header", "cookie">>])
       @@ "scheme" :> Leaf([type |-> "string"])
       @@ "bearerFormat" :> Leaf([type |-> "string"])
       @@ "flows" :> Ref("OAuth2Flows")
       @@ "openIdConnectUrl" :> Leaf([type |-> "string"])
       @@ "x-defaultClientId" :> Leaf([type |-> "string"])),
    required |-> KeysFn("Oas3_SecurityScheme_required"),
    allowed |-> KeysFn("Oas3_SecurityScheme_allowed")
  ])

Oas3_SecurityScheme ==
  NodeType([
    properties |->
      ("type" :> Leaf([enum |-> <<"apiKey", "http", "oauth2", "openIdConnect">>])
       @@ "description" :> Leaf([type |-> "string"])
       @@ "name" :> Leaf([type |-> "string"])
       @@ "in" :> Leaf([type |-> "string", enum |-> <<"query", "header", "cookie">>])
       @@ "scheme" :> Leaf([type |-> "string"])
       @@ "bearerFormat" :> Leaf([type |-> "string"])
       @@ "flows" :> Ref("OAuth2Flows")
       @@ "openIdConnectUrl" :> Leaf([type |-> "string"])
       @@ "x-defaultClientId" :> Leaf([type |-> "string"])),
    required |-> KeysFn("Oas3_SecurityScheme_required"),
    allowed |-> KeysFn("Oas3_SecurityScheme_allowed"),
    extensionsPrefix |-> <<"x", "-">>
  ])

Oas3_XUsePkce ==
  NodeType([
    properties |->
      ("disableManualConfiguration" :> Leaf([type |-> "boolean"])
       @@ "hideClientSecretInput" :> Leaf([type |-> "boolean"]))
  ])

\* Oas3Types as it would be with ParameterList built for another element type
Oas3Types_ParameterListOfHeaders ==
  [Root |-> Oas3_Root,
   Tag |-> Oas3_Tag,
   TagList |-> listOf("Tag", {"description"}),
   TagGroups |-> listOf("TagGroup", {}),
   TagGroup |-> Oas3_TagGroup,
   ExternalDocs |-> Oas3_ExternalDocs,
   Server |-> Oas3_Server,
   ServerList |-> listOf("Server", {}),
   ServerVariable |-> Oas3_ServerVariable,
   ServerVariablesMap |-> mapOf("ServerVariable", {}),
   SecurityRequirement |-> Oas3_SecurityRequirement,
   SecurityRequirementList |-> listOf("SecurityRequirement", {}),
   Info |-> Oas3_Info,
   Contact |-> Oas3_Contact,
   License |-> Oas3_License,
   Paths |-> Oas3_Paths,
   PathItem |-> Oas3_PathItem,
   Parameter |-> Oas3_Parameter,
   ParameterList |-> listOf("Header", {"description"}),
   Operation |-> Oas3_Operation,
   Callback |-> mapOf("PathItem", {}),
   CallbacksMap |-> mapOf("Callback", {}),
   RequestBody |-> Oas3_RequestBody,
   MediaTypesMap |-> Oas3_MediaTypesMap,
   MediaType |-> Oas3_MediaType,
   Example |-> Oas3_Example,
   ExamplesMap |-> mapOf("Example", {}),
   Encoding |-> Oas3_Encoding,
   EncodingMap |-> mapOf("Encoding", {}),
   EnumDescriptions |-> Oas3_EnumDescriptions,
   Header |-> Oas3_Header,
   HeadersMap |-> mapOf("Header", {}),
   Responses |-> Oas3_Responses,
   Response |-> Oas3_Response,
   Link |-> Oas3_Link,
   Logo |-> Oas3_Logo,
   Schema |-> Oas3_Schema,
   Xml |-> Oas3_Xml,
   SchemaProperties |-> Oas3_SchemaProperties,
   DiscriminatorMapping |-> Oas3_DiscriminatorMapping,
   Discriminator |-> Oas3_Discriminator,
   Components |-> Oas3_Components,
   LinksMap |-> mapOf("Link", {}),
   NamedSchemas |-> mapOf("Schema", {}),
   NamedResponses |-> mapOf("Response", {}),
   NamedParameters |-> mapOf("Parameter", {}),
   NamedExamples |-> mapOf("Example", {}),
   NamedRequestBodies |-> mapOf("RequestBody", {}),
   NamedHeaders |-> mapOf("Header", {}),
   NamedSecuritySchemes |-> mapOf("SecurityScheme", {}),
   NamedLinks |-> mapOf("Link", {}),
   NamedCallbacks |-> mapOf("Callback", {}),
   ImplicitFlow |-> Oas3_ImplicitFlow,
   PasswordFlow |-> Oas3_PasswordFlow,
   ClientCredentials |-> Oas3_ClientCredentials,
   AuthorizationCode |-> Oas3_AuthorizationCode,
   OAuth2Flows |-> Oas3_OAuth2Flows,
   SecurityScheme |-> Oas3_SecurityScheme,
   XCodeSample |-> Oas3_XCodeSample,
   XCodeSampleList |-> listOf("XCodeSample", {}),
   XUsePkce |-> Oas3_XUsePkce,
   WebhooksMap |-> Oas3_WebhooksMap]

Oas3Types ==
  [Root |-> Oas3_Root,
   Tag |-> Oas3_Tag,
   TagList |-> listOf("Tag", {"description"}),
   TagGroups |-> listOf("TagGroup", {}),
   TagGroup |-> Oas3_TagGroup,
   ExternalDocs |-> Oas3_ExternalDocs,
   Server |-> Oas3_Server,
   ServerList |-> listOf("Server", {}),
   ServerVariable |-> Oas3_ServerVariable,
   ServerVariablesMap |-> mapOf("ServerVariable", {}),
   SecurityRequirement |-> Oas3_SecurityRequirement,
   SecurityRequirementList |-> listOf("SecurityRequirement", {}),
   Info |-> Oas3_Info,
   Contact |-> Oas3_Contact,
   License |-> Oas3_License,
   Paths |-> Oas3_Paths,
   PathItem |-> Oas3_PathItem,
   Parameter |-> Oas3_Parameter,
   ParameterList |-> listOf("Parameter", {"description"}),
   Operation |-> Oas3_Operation,
   Callback |-> mapOf("PathItem", {}),
   CallbacksMap |-> mapOf("Callback", {}),
   RequestBody |-> Oas3_RequestBody,
   MediaTypesMap |-> Oas3_MediaTypesMap,
   MediaType |-> Oas3_MediaType,
   Example |-> Oas3_Example,
   ExamplesMap |-> mapOf("Example", {}),
   Encoding |-> Oas3_Encoding,
   EncodingMap |-> mapOf("Encoding", {}),
   EnumDescriptions |-> Oas3_EnumDescriptions,
   Header |-> Oas3_Header,
   HeadersMap |-> mapOf("Header", {}),
   Responses |-> Oas3_Responses,
   Response |-> Oas3_Response,
   Link |-> Oas3_Link,
   Logo |-> Oas3_Logo,
   Schema |-> Oas3_Schema,
   Xml |-> Oas3_Xml,
   SchemaProperties |-> Oas3_SchemaProperties,
   DiscriminatorMapping |-> Oas3_DiscriminatorMapping,
   Discriminator |-> Oas3_Discriminator,
   Components |-> Oas3_Components,
   LinksMap |-> mapOf("Link", {}),
   NamedSchemas |-> mapOf("Schema", {}),
   NamedResponses |-> mapOf("Response", {}),
   NamedParameters |-> mapOf("Parameter", {}),
   NamedExamples |-> mapOf("Example", {}),
   NamedRequestBodies |-> mapOf("RequestBody", {}),
   NamedHeaders |-> mapOf("Header", {}),
   NamedSecuritySchemes |-> mapOf("SecurityScheme", {}),
   NamedLinks |-> mapOf("Link", {}),
   NamedCallbacks |-> mapOf("Callback", {}),
   ImplicitFlow |-> Oas3_ImplicitFlow,
   PasswordFlow |-> Oas3_PasswordFlow,
   ClientCredentials |-> Oas3_ClientCredentials,
   AuthorizationCode |-> Oas3_AuthorizationCode,
   OAuth2Flows |-> Oas3_OAuth2Flows,
   SecurityScheme |-> Oas3_SecurityScheme,
   XCodeSample |-> Oas3_XCodeSample,
   XCodeSampleList |-> listOf("XCodeSample", {}),
   XUsePkce |-> Oas3_XUsePkce,
   WebhooksMap |-> Oas3_WebhooksMap]

-----------------------------------------------------------------------------
(* The second OpenAPI 3 table of the sources (unnamed/part_000).            *)

\* responseCodeRegexp as it would be with the pattern /^[0-9Xx]{3}$/
Part000_responseCodeRegexp_LetterFirst(s) ==
  /\ Len(s) = 3
  /\ s[1] \in Digit \cup {"X", "x"}
  /\ s[2] \in Digit \cup {"X", "x"}
  /\ s[3] \in Digit \cup {"X", "x"}

\* responseCodeRegexp.test(s), responseCodeRegexp = /^[0-9][0-9Xx]{2}$/
Part000_responseCodeRegexp(s) ==
  /\ Len(s) = 3
  /\ s[1] \in Digit
  /\ s[2] \in Digit \cup {"X", "x"}
  /\ s[3] \in Digit \cup {"X", "x"}

\* Paths.additionalProperties
Part000_Paths_additionalProperties(value, key) ==
  IF StartsWith(key, <<"/">>) THEN Ref("PathItem") ELSE Undefined

\* WebhooksMap.additionalProperties
Part000_WebhooksMap_additionalProperties(value, key) ==
  Ref("PathItem")

\* Responses.additionalProperties
Part000_Responses_additionalProperties(value, key) ==
  IF Part000_responseCodeRegexp(key) THEN Ref("Response") ELSE Undefined

\* Schema.items
Part000_Schema_items(value, key) ==
  IF IsArray(value) THEN Node(listOf("Schema", {})) ELSE Ref("Schema")

\* Schema.additionalProperties
Part000_Schema_additionalProperties(value, key) ==
  IF TypeOf(value) = "boolean" THEN Leaf([type |-> "boolean"]) ELSE Ref("Schema")

\* DiscriminatorMapping.additionalProperties
Part000_DiscriminatorMapping_additionalProperties(value, key) ==
  IF isMappingRef(value)
  THEN Leaf([type |-> "string", directResolveAs |-> "Schema"])
  ELSE Leaf([type |-> "string"])

\* AuthorizationCode.x-usePkce
Part000_AuthorizationCode_x_usePkce(value, key) ==
  IF TypeOf(value) = "boolean" THEN Leaf([type |-> "boolean"]) ELSE Ref("XUsePkce")

\* SecurityScheme.required
Part000_SecurityScheme_required(value) ==
  LET type == TypeField(value) IN
  CASE IsStr(type, "apiKey") -> <<"type", "name", "in">>
    [] IsStr(type, "http") -> <<"type", "scheme">>
    [] IsStr(type, "oauth2") -> <<"type", "flows">>
    [] IsStr(type, "openIdConnect") -> <<"type", "openIdConnectUrl">>
    [] OTHER -> <<"type">>

\* SecurityScheme.allowed
Part000_SecurityScheme_allowed(value) ==
  LET type == TypeField(value) IN
  CASE IsStr(type, "apiKey") -> <<"type", "name", "in", "description">>
    [] IsStr(type, "http") -> <<"type", "scheme", "bearerFormat", "description">>
    [] IsStr(type, "oauth2") -> <<"type", "flows", "description">>
    [] IsStr(type, "openIdConnect") -> <<"type", "openIdConnectUrl", "description">>
    [] OTHER -> <<"type", "description">>

\* the second table as it would be with ServerList built for another element type
Part000_Oas3Types_ServerListOfVariables ==
  [Root |->
      NodeType([
        properties |->
          ("openapi" :> None
           @@ "info" :> Ref("Info")
           @@ "servers" :> Ref("ServerList")
           @@ "security" :> Ref("SecurityRequirementList")
           @@ "tags" :> Ref("TagList")
           @@ "externalDocs" :> Ref("ExternalDocs")
           @@ "paths" :> Ref("Paths")
           @@ "components" :> Ref("Components")
           @@ "x-webhooks" :> Ref("WebhooksMap")
           @@ "x-tagGroups" :> Ref("TagGroups")
           @@ "x-ignoredHeaderParameters" :> Leaf([type |-> "array", items |-> [type |-> "string"]])),
        required |-> KeyList(<<"openapi", "paths", "info">>),
        extensionsPrefix |-> <<"x", "-">>
      ]),
   Tag |->
      NodeType([
        properties |->
          ("name" :> Leaf([type |-> "string"])
           @@ "description" :> Leaf([type |-> "string"])
           @@ "externalDocs" :> Ref("ExternalDocs")
           @@ "x-traitTag" :> Leaf([type |-> "boolean"])
           @@ "x-displayName" :> Leaf([type |-> "string"])),
        required |-> KeyList(<<"name">>),
        extensionsPrefix |-> <<"x", "-">>
      ]),
   TagList |-> listOf("Tag", {"documentationLink", "description"}),
   TagGroups |-> listOf("TagGroup", {}),
   TagGroup |->
      NodeType([
        properties |->
          ("name" :> Leaf([type |-> "string"])
           @@ "tags" :> Leaf([type |-> "array", items |-> [type |-> "string"]])),
        extensionsPrefix |-> <<"x", "-">>
      ]),
   ExternalDocs |->
      NodeType([
        properties |->
          ("description" :> Leaf([type |-> "string"])
           @@ "url" :> Leaf([type |-> "string"])),
        required |-> KeyList(<<"url">>),
        extensionsPrefix |-> <<"x", "-">>
      ]),
   Server |->
      NodeType([
        properties |->
          ("url" :> Leaf([type |-> "string"])
           @@ "description" :> Leaf([type |-> "string"])
           @@ "variables" :> Ref("ServerVariablesMap")),
        required |-> KeyList(<<"url">>),
        extensionsPrefix |-> <<"x", "-">>
      ]),
   ServerList |-> listOf("ServerVariable", {"description", "documentationLink"}),
   ServerVariable |->
      NodeType([
        properties |->
          ("enum" :> Leaf([type |-> "array", items |-> [type |-> "string"]])
           @@ "default" :> Leaf([type |-> "string"])
           @@ "description" :> Leaf([type |-> "string"])),
        required |-> KeyList(<<"default">>),
        extensionsPrefix |-> <<"x", "-">>
      ]),
   ServerVariablesMap |-> mapOf("ServerVariable", {"description"}),
   SecurityRequirement |->
      NodeType([
        properties |-> <<>>,
        additionalProperties |-> Leaf([type |-> "array", items |-> [type |-> "string"]])
      ]),
   SecurityRequirementList |-> listOf("SecurityRequirement", {}),
   Info |->
      NodeType([
        properties |->
          ("title" :> Leaf([type |-> "string"])
           @@ "version" :> Leaf([type |-> "string"])
           @@ "description" :> Leaf([type |-> "string"])
           @@ "termsOfService" :> Leaf([type |-> "string"])
           @@ "contact" :> Ref("Contact")
           @@ "license" :> Ref("License")
           @@ "x-logo" :> Ref("Logo")),
        required |-> KeyList(<<"title", "version">>),
        extensionsPrefix |-> <<"x", "-">>
      ]),
   Contact |->
      NodeType([
        properties |->
          ("name" :> Leaf([type |-> "string"])
           @@ "url" :> Leaf([type |-> "string"])
           @@ "email" :> Leaf([type |-> "string"])),
        extensionsPrefix |-> <<"x", "-">>
      ]),
   License |->
      NodeType([
        properties |->
          ("name" :> Leaf([type |-> "string"])
           @@ "url" :> Leaf([type |-> "string"])),
        required |-> KeyList(<<"name">>),
        extensionsPrefix |-> <<"x", "-">>
      ]),
   Paths |->
      NodeType([
        properties |-> <<>>,
        additionalProperties |-> Resolver("Part000_Paths_additionalProperties")
      ]),
   PathItem |->
      NodeType([
        properties |->
          ("$ref" :> Leaf([type |-> "string"])
           @@ "servers" :> Ref("ServerList")
           @@ "parameters" :> Ref("ParameterList")
           @@ "summary" :> Leaf([type |-> "string"])
           @@ "description" :> Leaf([type |-> "string"])
           @@ "get" :> Ref("Operation")
           @@ "put" :> Ref("Operation")
           @@ "post" :> Ref("Operation")
           @@ "delete" :> Ref("Operation")
           @@ "options" :> Ref("Operation")
           @@ "head" :> Ref("Operation")
           @@ "patch" :> Ref("Operation")
           @@ "trace" :> Ref("Operation")),
        extensionsPrefix |-> <<"x", "-">>
      ]),
   Parameter |->
      NodeType([
        properties |->
          ("name" :> Leaf([type |-> "string"])
           @@ "in" :> Leaf([enum |-> <<"query", "header", "path", "cookie">>])
           @@ "description" :> Leaf([type |-> "string"])
           @@ "required" :> Leaf([type |-> "boolean"])
           @@ "deprecated" :> Leaf([type |-> "boolean"])
           @@ "allowEmptyValue" :> Leaf([type |-> "boolean"])
           @@ "style" :> Leaf([enum |-> <<"form", "simple", "label", "matrix", "spaceDelimited", "pipeDelimited", "deepObject">>])
           @@ "explode" :> Leaf([type |-> "boolean"])
           @@ "allowReserved" :> Leaf([type |-> "boolean"])
           @@ "schema" :> Ref("Schema")
           @@ "example" :> Leaf([isExample |-> TRUE])
           @@ "examples" :> Ref("ExamplesMap")
           @@ "content" :> Ref("MediaTypesMap")),
        required |-> KeyList(<<"name", "in">>),
        requiredOneOf |-> KeyList(<<"schema", "content">>),
        extensionsPrefix |-> <<"x", "-">>
      ]),
   ParameterList |-> listOf("Parameter", {"description"}),
   Operation |->
      NodeType([
        properties |->
          ("tags" :> Leaf([type |-> "array", items |-> [type |-> "string"]])
           @@ "summary" :> Leaf([type |-> "string"])
           @@ "description" :> Leaf([type |-> "string"])
           @@ "externalDocs" :> Ref("ExternalDocs")
           @@ "operationId" :> Leaf([type |-> "string"])
           @@ "parameters" :> Ref("ParameterList")
           @@ "security" :> Ref("SecurityRequirementList")
           @@ "servers" :> Ref("ServerList")
           @@ "requestBody" :> Ref("RequestBody")
           @@ "responses" :> Ref("Responses")
           @@ "deprecated" :> Leaf([type |-> "boolean"])
           @@ "callbacks" :> Ref("CallbacksMap")
           @@ "x-codeSamples" :> Ref("XCodeSampleList")
           @@ "x-code-samples" :> Ref("XCodeSampleList")
           @@ "x-hideTryItPanel" :> Leaf([type |-> "boolean"])),
        required |-> KeyList(<<"responses">>),
        extensionsPrefix |-> <<"x", "-">>
      ]),
   Callback |-> mapOf("PathItem", {}),
   CallbacksMap |-> mapOf("Callback", {}),
   RequestBody |->
      NodeType([
        properties |->
          ("description" :> Leaf([type |-> "string"])
           @@ "required" :> Leaf([type |-> "boolean"])
           @@ "content" :> Ref("MediaTypesMap")),
        required |-> KeyList(<<"content">>),
        extensionsPrefix |-> <<"x", "-">>
      ]),
   MediaTypesMap |->
      NodeType([
        properties |-> <<>>,
        additionalProperties |-> Ref("MediaType")
      ]),
   MediaType |->
      NodeType([
        properties |->
          ("schema" :> Ref("Schema")
           @@ "example" :> Leaf([isExample |-> TRUE])
           @@ "examples" :> Ref("ExamplesMap")
           @@ "encoding" :> Ref("EncodingMap")),
        extensionsPrefix |-> <<"x", "-">>
      ]),
   Example |->
      NodeType([
        properties |->
          ("value" :> Leaf([resolvable |-> FALSE])
           @@ "summary" :> Leaf([type |-> "string"])
           @@ "description" :> Leaf([type |-> "string"])
           @@ "externalValue" :> Leaf([type |-> "string"])),
        extensionsPrefix |-> <<"x", "-">>
      ]),
   ExamplesMap |-> mapOf("Example", {}),
   Encoding |->
      NodeType([
        properties |->
          ("contentType" :> Leaf([type |-> "string"])
           @@ "headers" :> Ref("HeadersMap")
           @@ "style" :> Leaf([enum |-> <<"form", "simple", "label", "matrix", "spaceDelimited", "pipeDelimited", "deepObject">>])
           @@ "explode" :> Leaf([type |-> "boolean"])
           @@ "allowReserved" :> Leaf([type |-> "boolean"])),
        extensionsPrefix |-> <<"x", "-">>
      ]),
   EncodingMap |-> mapOf("Encoding", {}),
   EnumDescriptions |->
      NodeType([
        properties |-> <<>>,
        additionalProperties |-> Leaf([type |-> "string"])
      ]),
   Header |->
      NodeType([
        properties |->
          ("description" :> Leaf([type |-> "string"])
           @@ "required" :> Leaf([type |-> "boolean"])
           @@ "deprecated" :> Leaf([type |-> "boolean"])
           @@ "allowEmptyValue" :> Leaf([type |-> "boolean"])
           @@ "style" :> Leaf([enum |-> <<"form", "simple", "label", "matrix", "spaceDelimited", "pipeDelimited", "deepObject">>])
           @@ "explode" :> Leaf([type |-> "boolean"])
           @@ "allowReserved" :> Leaf([type |-> "boolean"])
           @@ "schema" :> Ref("Schema")
           @@ "example" :> Leaf([isExample |-> TRUE])
           @@ "examples" :> Ref("ExamplesMap")
           @@ "content" :> Ref("MediaTypesMap")),
        requiredOneOf |-> KeyList(<<"schema", "content">>),
        extensionsPrefix |-> <<"x", "-">>
      ]),
   HeadersMap |-> mapOf("Header", {}),
   Responses |->
      NodeType([
        properties |->
          ("default" :> Ref("Response")),
        additionalProperties |-> Resolver("Part000_Responses_additionalProperties")
      ]),
   Response |->
      NodeType([
        properties |->
          ("description" :> Leaf([type |-> "string"])
           @@ "headers" :> Ref("HeadersMap")
           @@ "content" :> Ref("MediaTypesMap")
           @@ "links" :> Ref("LinksMap")
           @@ "x-summary" :> Leaf([type |-> "string"])),
        required |-> KeyList(<<"description">>),
        extensionsPrefix |-> <<"x", "-">>
      ]),
   Link |->
      NodeType([
        properties |->
          ("operationRef" :> Leaf([type |-> "string"])
           @@ "operationId" :> Leaf([type |-> "string"])
           @@ "parameters" :> None
           @@ "requestBody" :> None
           @@ "description" :> Leaf([type |-> "string"])
           @@ "server" :> Ref("Server")),
        extensionsPrefix |-> <<"x", "-">>
      ]),
   Logo |->
      NodeType([
        properties |->
          ("url" :> Leaf([type |-> "string"])
           @@ "altText" :> Leaf([type |-> "string"])
           @@ "backgroundColor" :> Leaf([type |-> "string"])
           @@ "href" :> Leaf([type |-> "string"]))
      ]),
   Schema |->
      NodeType([
        properties |->
          ("externalDocs" :> Ref("ExternalDocs")
           @@ "discriminator" :> Ref("Discriminator")
           @@ "title" :> Leaf([type |-> "string"])
           @@ "multipleOf" :> Leaf([type |-> "number", minimum |-> 0])
           @@ "maximum" :> Leaf([type |-> "number"])
           @@ "minimum" :> Leaf([type |-> "number"])
           @@ "exclusiveMaximum" :> Leaf([type |-> "boolean"])
           @@ "exclusiveMinimum" :> Leaf([type |-> "boolean"])
           @@ "maxLength" :> Leaf([type |-> "integer", minimum |-> 0])
           @@ "minLength" :> Leaf([type |-> "integer", minimum |-> 0])
           @@ "pattern" :> Leaf([type |-> "string"])
           @@ "maxItems" :> Leaf([type |-> "integer", minimum |-> 0])
           @@ "minItems" :> Leaf([type |-> "integer", minimum |-> 0])
           @@ "uniqueItems" :> Leaf([type |-> "boolean"])
           @@ "maxProperties" :> Leaf([type |-> "integer", minimum |-> 0])
           @@ "minProperties" :> Leaf([type |-> "integer", minimum |-> 0])
           @@ "required" :> Leaf([type |-> "array", items |-> [type |-> "string"]])
           @@ "enum" :> Leaf([type |-> "array"])
           @@ "type" :> Leaf([enum |-> <<"object", "array", "string", "number", "integer", "boolean">>])
           @@ "allOf" :> Node(listOf("Schema", {}))
           @@ "anyOf" :> Node(listOf("Schema", {}))
           @@ "oneOf" :> Node(listOf("Schema", {}))
           @@ "not" :> Ref("Schema")
           @@ "properties" :> Ref("SchemaProperties")
           @@ "items" :> Resolver("Part000_Schema_items")
           @@ "additionalProperties" :> Resolver("Part000_Schema_additionalProperties")
           @@ "description" :> Leaf([type |-> "string"])
           @@ "format" :> Leaf([type |-> "string"])
           @@ "default" :> None
           @@ "nullable" :> Leaf([type |-> "boolean"])
           @@ "readOnly" :> Leaf([type |-> "boolean"])
           @@ "writeOnly" :> Leaf([type |-> "boolean"])
           @@ "xml" :> Ref("Xml")
           @@ "example" :> Leaf([isExample |-> TRUE])
           @@ "deprecated" :> Leaf([type |-> "boolean"])
           @@ "x-tags" :> Leaf([type |-> "array", items |-> [type |-> "string"]])
           @@ "x-additionalPropertiesName" :> Leaf([type |-> "string"])
           @@ "x-explicitMappingOnly" :> Leaf([type |-> "boolean"])),
        extensionsPrefix |-> <<"x", "-">>
      ]),
   Xml |->
      NodeType([
        properties |->
          ("name" :> Leaf([type |-> "string"])
           @@ "namespace" :> Leaf([type |-> "string"])
           @@ "prefix" :> Leaf([type |-> "string"])
           @@ "attribute" :> Leaf([type |-> "boolean"])
           @@ "wrapped" :> Leaf([type |-> "boolean"])),
        extensionsPrefix |-> <<"x", "-">>
      ]),
   SchemaProperties |->
      NodeType([
        properties |-> <<>>,
        additionalProperties |-> Ref("Schema")
      ]),
   DiscriminatorMapping |->
      NodeType([
        properties |-> <<>>,
        additionalProperties |-> Resolver("Part000_DiscriminatorMapping_additionalProperties")
      ]),
   Discriminator |->
      NodeType([
        properties |->
          ("propertyName" :> Leaf([type |-> "string"])
           @@ "mapping" :> Ref("DiscriminatorMapping")),
        required |-> KeyList(<<"propertyName">>),
        extensionsPrefix |-> <<"x", "-">>
      ]),
   Components |->
      NodeType([
        properties |->
          ("parameters" :> Ref("NamedParameters")
           @@ "schemas" :> Ref("NamedSchemas")
           @@ "responses" :> Ref("NamedResponses")
           @@ "examples" :> Ref("NamedExamples")
           @@ "requestBodies" :> Ref("NamedRequestBodies")
           @@ "headers" :> Ref("NamedHeaders")
           @@ "securitySchemes" :> Ref("NamedSecuritySchemes")
           @@ "links" :> Ref("NamedLinks")
           @@ "callbacks" :> Ref("NamedCallbacks")),
        extensionsPrefix |-> <<"x", "-">>
      ]),
   LinksMap |-> mapOf("Link", {}),
   NamedSchemas |-> mapOf("Schema", {}),
   NamedResponses |-> mapOf("Response", {}),
   NamedParameters |-> mapOf("Parameter", {}),
   NamedExamples |-> mapOf("Example", {}),
   NamedRequestBodies |-> mapOf("RequestBody", {}),
   NamedHeaders |-> mapOf("Header", {}),
   NamedSecuritySchemes |-> mapOf("SecurityScheme", {}),
   NamedLinks |-> mapOf("Link", {}),
   NamedCallbacks |-> mapOf("Callback", {}),
   ImplicitFlow |->
      NodeType([
        properties |->
          ("refreshUrl" :> Leaf([type |-> "string"])
           @@ "scopes" :> Leaf([type |-> "object", additionalProperties |-> [type |-> "string"]])
           @@ "authorizationUrl" :> Leaf([type |-> "string"])),
        required |-> KeyList(<<"authorizationUrl", "scopes">>),
        extensionsPrefix |-> <<"x", "-">>
      ]),
   PasswordFlow |->
      NodeType([
        properties |->
          ("refreshUrl" :> Leaf([type |-> "string"])
           @@ "scopes" :> Leaf([type |-> "object", additionalProperties |-> [type |-> "string"]])
           @@ "tokenUrl" :> Leaf([type |-> "string"])),
        required |-> KeyList(<<"tokenUrl", "scopes">>),
        extensionsPrefix |-> <<"x", "-">>
      ]),
   ClientCredentials |->
      NodeType([
        properties |->
          ("refreshUrl" :> Leaf([type |-> "string"])
           @@ "scopes" :> Leaf([type |-> "object", additionalProperties |-> [type |-> "string"]])
           @@ "tokenUrl" :> Leaf([type |-> "string"])),
        required |-> KeyList(<<"tokenUrl", "scopes">>),
        extensionsPrefix |-> <<"x", "-">>
      ]),
   AuthorizationCode |->
      NodeType([
        properties |->
          ("refreshUrl" :> Leaf([type |-> "string"])
           @@ "authorizationUrl" :> Leaf([type |-> "string"])
           @@ "scopes" :> Leaf([type |-> "object", additionalProperties |-> [type |-> "string"]])
           @@ "tokenUrl" :> Leaf([type |-> "string"])
           @@ "x-usePkce" :> Resolver("Part000_AuthorizationCode_x_usePkce")),
        required |-> KeyList(<<"authorizationUrl", "tokenUrl", "scopes">>),
        extensionsPrefix |-> <<"x", "-">>
      ]),
   OAuth2Flows |->
      NodeType([
        properties |->
          ("implicit" :> Ref("ImplicitFlow")
           @@ "password" :> Ref("PasswordFlow")
           @@ "clientCredentials" :> Ref("ClientCredentials")
           @@ "authorizationCode" :> Ref("AuthorizationCode")),
        extensionsPrefix |-> <<"x", "-">>
      ]),
   SecurityScheme |->
      NodeType([
        properties |->
          ("type" :> Leaf([enum |-> <<"apiKey", "http", "oauth2", "openIdConnect">>])
           @@ "description" :> Leaf([type |-> "string"])
           @@ "name" :> Leaf([type |-> "string"])
           @@ "in" :> Leaf([type |-> "string", enum |-> <<"query", "header", "cookie">>])
           @@ "scheme" :> Leaf([type |-> "string"])
           @@ "bearerFormat" :> Leaf([type |-> "string"])
           @@ "flows" :> Ref("OAuth2Flows")
           @@ "openIdConnectUrl" :> Leaf([type |-> "string"])
           @@ "x-defaultClientId" :> Leaf([type |-> "string"])),
        required |-> KeysFn("Part000_SecurityScheme_required"),
        allowed |-> KeysFn("Part000_SecurityScheme_allowed"),
        extensionsPrefix |-> <<"x", "-">>
      ]),
   XCodeSample |->
      NodeType([
        properties |->
          ("lang" :> Leaf([type |-> "string"])
           @@ "label" :> Leaf([type |-> "string"])
           @@ "source" :> Leaf([type |-> "string"]))
      ]),
   XCodeSampleList |-> listOf("XCodeSample", {}),
   XUsePkce |->
      NodeType([
        properties |->
          ("disableManualConfiguration" :> Leaf([type |-> "boolean"])
           @@ "hideClientSecretInput" :> Leaf([type |-> "boolean"]))
      ]),
   WebhooksMap |->
      NodeType([
        properties |-> <<>>,
        additionalProperties |-> Resolver("Part000_WebhooksMap_additionalProperties")
      ])]

Part000_Oas3Types ==
  [Root |->
      NodeType([
        properties |->
          ("openapi" :> None
           @@ "info" :> Ref("Info")
           @@ "servers" :> Ref("ServerList")
           @@ "security" :> Ref("SecurityRequirementList")
           @@ "tags" :> Ref("TagList")
           @@ "externalDocs" :> Ref("ExternalDocs")
           @@ "paths" :> Ref("Paths")
           @@ "components" :> Ref("Components")
           @@ "x-webhooks" :> Ref("WebhooksMap")
           @@ "x-tagGroups" :> Ref("TagGroups")
           @@ "x-ignoredHeaderParameters" :> Leaf([type |-> "array", items |-> [type |-> "string"]])),
        required |-> KeyList(<<"openapi", "paths", "info">>),
        extensionsPrefix |-> <<"x", "-">>
      ]),
   Tag |->
      NodeType([
        properties |->
          ("name" :> Leaf([type |-> "string"])
           @@ "description" :> Leaf([type |-> "string"])
           @@ "externalDocs" :> Ref("ExternalDocs")
           @@ "x-traitTag" :> Leaf([type |-> "boolean"])
           @@ "x-displayName" :> Leaf([type |-> "string"])),
        required |-> KeyList(<<"name">>),
        extensionsPrefix |-> <<"x", "-">>
      ]),
   TagList |-> listOf("Tag", {"documentationLink", "description"}),
   TagGroups |-> listOf("TagGroup", {}),
   TagGroup |->
      NodeType([
        properties |->
          ("name" :> Leaf([type |-> "string"])
           @@ "tags" :> Leaf([type |-> "array", items |-> [type |-> "string"]])),
        extensionsPrefix |-> <<"x", "-">>
      ]),
   ExternalDocs |->
      NodeType([
        properties |->
          ("description" :> Leaf([type |-> "string"])
           @@ "url" :> Leaf([type |-> "string"])),
        required |-> KeyList(<<"url">>),
        extensionsPrefix |-> <<"x", "-">>
      ]),
   Server |->
      NodeType([
        properties |->
          ("url" :> Leaf([type |-> "string"])
           @@ "description" :> Leaf([type |-> "string"])
           @@ "variables" :> Ref("ServerVariablesMap")),
        required |-> KeyList(<<"url">>),
        extensionsPrefix |-> <<"x", "-">>
      ]),
   ServerList |-> listOf("Server", {"description", "documentationLink"}),
   ServerVariable |->
      NodeType([
        properties |->
          ("enum" :> Leaf([type |-> "array", items |-> [type |-> "string"]])
           @@ "default" :> Leaf([type |-> "string"])
           @@ "description" :> Leaf([type |-> "string"])),
        required |-> KeyList(<<"default">>),
        extensionsPrefix |-> <<"x", "-">>
      ]),
   ServerVariablesMap |-> mapOf("ServerVariable", {"description"}),
   SecurityRequirement |->
      NodeType([
        properties |-> <<>>,
        additionalProperties |-> Leaf([type |-> "array", items |-> [type |-> "string"]])
      ]),
   SecurityRequirementList |-> listOf("SecurityRequirement", {}),
   Info |->
      NodeType([
        properties |->
          ("title" :> Leaf([type |-> "string"])
           @@ "version" :> Leaf([type |-> "string"])
           @@ "description" :> Leaf([type |-> "string"])
           @@ "termsOfService" :> Leaf([type |-> "string"])
           @@ "contact" :> Ref("Contact")
           @@ "license" :> Ref("License")
           @@ "x-logo" :> Ref("Logo")),
        required |-> KeyList(<<"title", "version">>),
        extensionsPrefix |-> <<"x", "-">>
      ]),
   Contact |->
      NodeType([
        properties |->
          ("name" :> Leaf([type |-> "string"])
           @@ "url" :> Leaf([type |-> "string"])
           @@ "email" :> Leaf([type |-> "string"])),
        extensionsPrefix |-> <<"x", "-">>
      ]),
   License |->
      NodeType([
        properties |->
          ("name" :> Leaf([type |-> "string"])
           @@ "url" :> Leaf([type |-> "string"])),
        required |-> KeyList(<<"name">>),
        extensionsPrefix |-> <<"x", "-">>
      ]),
   Paths |->
      NodeType([
        properties |-> <<>>,
        additionalProperties |-> Resolver("Part000_Paths_additionalProperties")
      ]),
   PathItem |->
      NodeType([
        properties |->
          ("$ref" :> Leaf([type |-> "string"])
           @@ "servers" :> Ref("ServerList")
           @@ "parameters" :> Ref("ParameterList")
           @@ "summary" :> Leaf([type |-> "string"])
           @@ "description" :> Leaf([type |-> "string"])
           @@ "get" :> Ref("Operation")
           @@ "put" :> Ref("Operation")
           @@ "post" :> Ref("Operation")
           @@ "delete" :> Ref("Operation")
           @@ "options" :> Ref("Operation")
           @@ "head" :> Ref("Operation")
           @@ "patch" :> Ref("Operation")
           @@ "trace" :> Ref("Operation")),
        extensionsPrefix |-> <<"x", "-">>
      ]),
   Parameter |->
      NodeType([
        properties |->
          ("name" :> Leaf([type |-> "string"])
           @@ "in" :> Leaf([enum |-> <<"query", "header", "path", "cookie">>])
           @@ "description" :> Leaf([type |-> "string"])
           @@ "required" :> Leaf([type |-> "boolean"])
           @@ "deprecated" :> Leaf([type |-> "boolean"])
           @@ "allowEmptyValue" :> Leaf([type |-> "boolean"])
           @@ "style" :> Leaf([enum |-> <<"form", "simple", "label", "matrix", "spaceDelimited", "pipeDelimited", "deepObject">>])
           @@ "explode" :> Leaf([type |-> "boolean"])
           @@ "allowReserved" :> Leaf([type |-> "boolean"])
           @@ "schema" :> Ref("Schema")
           @@ "example" :> Leaf([isExample |-> TRUE])
           @@ "examples" :> Ref("ExamplesMap")
           @@ "content" :> Ref("MediaTypesMap")),
        required |-> KeyList(<<"name", "in">>),
        requiredOneOf |-> KeyList(<<"schema", "content">>),
        extensionsPrefix |-> <<"x", "-">>
      ]),
   ParameterList |-> listOf("Parameter", {"description"}),
   Operation |->
      NodeType([
        properties |->
          ("tags" :> Leaf([type |-> "array", items |-> [type |-> "string"]])
           @@ "summary" :> Leaf([type |-> "string"])
           @@ "description" :> Leaf([type |-> "string"])
           @@ "externalDocs" :> Ref("ExternalDocs")
           @@ "operationId" :> Leaf([type |-> "string"])
           @@ "parameters" :> Ref("ParameterList")
           @@ "security" :> Ref("SecurityRequirementList")
           @@ "servers" :> Ref("ServerList")
           @@ "requestBody" :> Ref("RequestBody")
           @@ "responses" :> Ref("Responses")
           @@ "deprecated" :> Leaf([type |-> "boolean"])
           @@ "callbacks" :> Ref("CallbacksMap")
           @@ "x-codeSamples" :> Ref("XCodeSampleList")
           @@ "x-code-samples" :> Ref("XCodeSampleList")
           @@ "x-hideTryItPanel" :> Leaf([type |-> "boolean"])),
        required |-> KeyList(<<"responses">>),
        extensionsPrefix |-> <<"x", "-">>
      ]),
   Callback |-> mapOf("PathItem", {}),
   CallbacksMap |-> mapOf("Callback", {}),
   RequestBody |->
      NodeType([
        properties |->
          ("description" :> Leaf([type |-> "string"])
           @@ "required" :> Leaf([type |-> "boolean"])
           @@ "content" :> Ref("MediaTypesMap")),
        required |-> KeyList(<<"content">>),
        extensionsPrefix |-> <<"x", "-">>
      ]),
   MediaTypesMap |->
      NodeType([
        properties |-> <<>>,
        additionalProperties |-> Ref("MediaType")
      ]),
   MediaType |->
      NodeType([
        properties |->
          ("schema" :> Ref("Schema")
           @@ "example" :> Leaf([isExample |-> TRUE])
           @@ "examples" :> Ref("ExamplesMap")
           @@ "encoding" :> Ref("EncodingMap")),
        extensionsPrefix |-> <<"x", "-">>
      ]),
   Example |->
      NodeType([
        properties |->
          ("value" :> Leaf([resolvable |-> FALSE])
           @@ "summary" :> Leaf([type |-> "string"])
           @@ "description" :> Leaf([type |-> "string"])
           @@ "externalValue" :> Leaf([type |-> "string"])),
        extensionsPrefix |-> <<"x", "-">>
      ]),
   ExamplesMap |-> mapOf("Example", {}),
   Encoding |->
      NodeType([
        properties |->
          ("contentType" :> Leaf([type |-> "string"])
           @@ "headers" :> Ref("HeadersMap")
           @@ "style" :> Leaf([enum |-> <<"form", "simple", "label", "matrix", "spaceDelimited", "pipeDelimited", "deepObject">>])
           @@ "explode" :> Leaf([type |-> "boolean"])
           @@ "allowReserved" :> Leaf([type |-> "boolean"])),
        extensionsPrefix |-> <<"x", "-">>
      ]),
   EncodingMap |-> mapOf("Encoding", {}),
   EnumDescriptions |->
      NodeType([
        properties |-> <<>>,
        additionalProperties |-> Leaf([type |-> "string"])
      ]),
   Header |->
      NodeType([
        properties |->
          ("description" :> Leaf([type |-> "string"])
           @@ "required" :> Leaf([type |-> "boolean"])
           @@ "deprecated" :> Leaf([type |-> "boolean"])
           @@ "allowEmptyValue" :> Leaf([type |-> "boolean"])
           @@ "style" :> Leaf([enum |-> <<"form", "simple", "label", "matrix", "spaceDelimited", "pipeDelimited", "deepObject">>])
           @@ "explode" :> Leaf([type |-> "boolean"])
           @@ "allowReserved" :> Leaf([type |-> "boolean"])
           @@ "schema" :> Ref("Schema")
           @@ "example" :> Leaf([isExample |-> TRUE])
           @@ "examples" :> Ref("ExamplesMap")
           @@ "content" :> Ref("MediaTypesMap")),
        requiredOneOf |-> KeyList(<<"schema", "content">>),
        extensionsPrefix |-> <<"x", "-">>
      ]),
   HeadersMap |-> mapOf("Header", {}),
   Responses |->
      NodeType([
        properties |->
          ("default" :> Ref("Response")),
        additionalProperties |-> Resolver("Part000_Responses_additionalProperties")
      ]),
   Response |->
      NodeType([
        properties |->
          ("description" :> Leaf([type |-> "string"])
           @@ "headers" :> Ref("HeadersMap")
           @@ "content" :> Ref("MediaTypesMap")
           @@ "links" :> Ref("LinksMap")
           @@ "x-summary" :> Leaf([type |-> "string"])),
        required |-> KeyList(<<"description">>),
        extensionsPrefix |-> <<"x", "-">>
      ]),
   Link |->
      NodeType([
        properties |->
          ("operationRef" :> Leaf([type |-> "string"])
           @@ "operationId" :> Leaf([type |-> "string"])
           @@ "parameters" :> None
           @@ "requestBody" :> None
           @@ "description" :> Leaf([type |-> "string"])
           @@ "server" :> Ref("Server")),
        extensionsPrefix |-> <<"x", "-">>
      ]),
   Logo |->
      NodeType([
        properties |->
          ("url" :> Leaf([type |-> "string"])
           @@ "altText" :> Leaf([type |-> "string"])
           @@ "backgroundColor" :> Leaf([type |-> "string"])
           @@ "href" :> Leaf([type |-> "string"]))
      ]),
   Schema |->
      NodeType([
        properties |->
          ("externalDocs" :> Ref("ExternalDocs")
           @@ "discriminator" :> Ref("Discriminator")
           @@ "title" :> Leaf([type |-> "string"])
           @@ "multipleOf" :> Leaf([type |-> "number", minimum |-> 0])
           @@ "maximum" :> Leaf([type |-> "number"])
           @@ "minimum" :> Leaf([type |-> "number"])
           @@ "exclusiveMaximum" :> Leaf([type |-> "boolean"])
           @@ "exclusiveMinimum" :> Leaf([type |-> "boolean"])
           @@ "maxLength" :> Leaf([type |-> "integer", minimum |-> 0])
           @@ "minLength" :> Leaf([type |-> "integer", minimum |-> 0])
           @@ "pattern" :> Leaf([type |-> "string"])
           @@ "maxItems" :> Leaf([type |-> "integer", minimum |-> 0])
           @@ "minItems" :> Leaf([type |-> "integer", minimum |-> 0])
           @@ "uniqueItems" :> Leaf([type |-> "boolean"])
           @@ "maxProperties" :> Leaf([type |-> "integer", minimum |-> 0])
           @@ "minProperties" :> Leaf([type |-> "integer", minimum |-> 0])
           @@ "required" :> Leaf([type |-> "array", items |-> [type |-> "string"]])
           @@ "enum" :> Leaf([type |-> "array"])
           @@ "type" :> Leaf([enum |-> <<"object", "array", "string", "number", "integer", "boolean">>])
           @@ "allOf" :> Node(listOf("Schema", {}))
           @@ "anyOf" :> Node(listOf("Schema", {}))
           @@ "oneOf" :> Node(listOf("Schema", {}))
           @@ "not" :> Ref("Schema")
           @@ "properties" :> Ref("SchemaProperties")
           @@ "items" :> Resolver("Part000_Schema_items")
           @@ "additionalProperties" :> Resolver("Part000_Schema_additionalProperties")
           @@ "description" :> Leaf([type |-> "string"])
           @@ "format" :> Leaf([type |-> "string"])
           @@ "default" :> None
           @@ "nullable" :> Leaf([type |-> "boolean"])
           @@ "readOnly" :> Leaf([type |-> "boolean"])
           @@ "writeOnly" :> Leaf([type |-> "boolean"])
           @@ "xml" :> Ref("Xml")
           @@ "example" :> Leaf([isExample |-> TRUE])
           @@ "deprecated" :> Leaf([type |-> "boolean"])
           @@ "x-tags" :> Leaf([type |-> "array", items |-> [type |-> "string"]])
           @@ "x-additionalPropertiesName" :> Leaf([type |-> "string"])
           @@ "x-explicitMappingOnly" :> Leaf([type |-> "boolean"])),
        extensionsPrefix |-> <<"x", "-">>
      ]),
   Xml |->
      NodeType([
        properties |->
          ("name" :> Leaf([type |-> "string"])
           @@ "namespace" :> Leaf([type |-> "string"])
           @@ "prefix" :> Leaf([type |-> "string"])
           @@ "attribute" :> Leaf([type |-> "boolean"])
           @@ "wrapped" :> Leaf([type |-> "boolean"])),
        extensionsPrefix |-> <<"x", "-">>
      ]),
   SchemaProperties |->
      NodeType([
        properties |-> <<>>,
        additionalProperties |-> Ref("Schema")
      ]),
   DiscriminatorMapping |->
      NodeType([
        properties |-> <<>>,
        additionalProperties |-> Resolver("Part000_DiscriminatorMapping_additionalProperties")
      ]),
   Discriminator |->
      NodeType([
        properties |->
          ("propertyName" :> Leaf([type |-> "string"])
           @@ "mapping" :> Ref("DiscriminatorMapping")),
        required |-> KeyList(<<"propertyName">>),
        extensionsPrefix |-> <<"x", "-">>
      ]),
   Components |->
      NodeType([
        properties |->
          ("parameters" :> Ref("NamedParameters")
           @@ "schemas" :> Ref("NamedSchemas")
           @@ "responses" :> Ref("NamedResponses")
           @@ "examples" :> Ref("NamedExamples")
           @@ "requestBodies" :> Ref("NamedRequestBodies")
           @@ "headers" :> Ref("NamedHeaders")
           @@ "securitySchemes" :> Ref("NamedSecuritySchemes")
           @@ "links" :> Ref("NamedLinks")
           @@ "callbacks" :> Ref("NamedCallbacks")),
        extensionsPrefix |-> <<"x", "-">>
      ]),
   LinksMap |-> mapOf("Link", {}),
   NamedSchemas |-> mapOf("Schema", {}),
   NamedResponses |-> mapOf("Response", {}),
   NamedParameters |-> mapOf("Parameter", {}),
   NamedExamples |-> mapOf("Example", {}),
   NamedRequestBodies |-> mapOf("RequestBody", {}),
   NamedHeaders |-> mapOf("Header", {}),
   NamedSecuritySchemes |-> mapOf("SecurityScheme", {}),
   NamedLinks |-> mapOf("Link", {}),
   NamedCallbacks |-> mapOf("Callback", {}),
   ImplicitFlow |->
      NodeType([
        properties |->
          ("refreshUrl" :> Leaf([type |-> "string"])
           @@ "scopes" :> Leaf([type |-> "object", additionalProperties |-> [type |-> "string"]])
           @@ "authorizationUrl" :> Leaf([type |-> "string"])),
        required |-> KeyList(<<"authorizationUrl", "scopes">>),
        extensionsPrefix |-> <<"x", "-">>
      ]),
   PasswordFlow |->
      NodeType([
        properties |->
          ("refreshUrl" :> Leaf([type |-> "string"])
           @@ "scopes" :> Leaf([type |-> "object", additionalProperties |-> [type |-> "string"]])
           @@ "tokenUrl" :> Leaf([type |-> "string"])),
        required |-> KeyList(<<"tokenUrl", "scopes">>),
        extensionsPrefix |-> <<"x", "-">>
      ]),
   ClientCredentials |->
      NodeType([
        properties |->
          ("refreshUrl" :> Leaf([type |-> "string"])
           @@ "scopes" :> Leaf([type |-> "object", additionalProperties |-> [type |-> "string"]])
           @@ "tokenUrl" :> Leaf([type |-> "string"])),
        required |-> KeyList(<<"tokenUrl", "scopes">>),
        extensionsPrefix |-> <<"x", "-">>
      ]),
   AuthorizationCode |->
      NodeType([
        properties |->
          ("refreshUrl" :> Leaf([type |-> "string"])
           @@ "authorizationUrl" :> Leaf([type |-> "string"])
           @@ "scopes" :> Leaf([type |-> "object", additionalProperties |-> [type |-> "string"]])
           @@ "tokenUrl" :> Leaf([type |-> "string"])
           @@ "x-usePkce" :> Resolver("Part000_AuthorizationCode_x_usePkce")),
        required |-> KeyList(<<"authorizationUrl", "tokenUrl", "scopes">>),
        extensionsPrefix |-> <<"x", "-">>
      ]),
   OAuth2Flows |->
      NodeType([
        properties |->
          ("implicit" :> Ref("ImplicitFlow")
           @@ "password" :> Ref("PasswordFlow")
           @@ "clientCredentials" :> Ref("ClientCredentials")
           @@ "authorizationCode" :> Ref("AuthorizationCode")),
        extensionsPrefix |-> <<"x", "-">>
      ]),
   SecurityScheme |->
      NodeType([
        properties |->
          ("type" :> Leaf([enum |-> <<"apiKey", "http", "oauth2", "openIdConnect">>])
           @@ "description" :> Leaf([type |-> "string"])
           @@ "name" :> Leaf([type |-> "string"])
           @@ "in" :> Leaf([type |-> "string", enum |-> <<"query", "header", "cookie">>])
           @@ "scheme" :> Leaf([type |-> "string"])
           @@ "bearerFormat" :> Leaf([type |-> "string"])
           @@ "flows" :> Ref("OAuth2Flows")
           @@ "openIdConnectUrl" :> Leaf([type |-> "string"])
           @@ "x-defaultClientId" :> Leaf([type |-> "string"])),
        required |-> KeysFn("Part000_SecurityScheme_required"),
        allowed |-> KeysFn("Part000_SecurityScheme_allowed"),
        extensionsPrefix |-> <<"x", "-">>
      ]),
   XCodeSample |->
      NodeType([
        properties |->
          ("lang" :> Leaf([type |-> "string"])
           @@ "label" :> Leaf([type |-> "string"])
           @@ "source" :> Leaf([type |-> "string"]))
      ]),
   XCodeSampleList |-> listOf("XCodeSample", {}),
   XUsePkce |->
      NodeType([
        properties |->
          ("disableManualConfiguration" :> Leaf([type |-> "boolean"])
           @@ "hideClientSecretInput" :> Leaf([type |-> "boolean"]))
      ]),
   WebhooksMap |->
      NodeType([
        properties |-> <<>>,
        additionalProperties |-> Resolver("Part000_WebhooksMap_additionalProperties")
      ])]

-----------------------------------------------------------------------------
(* asyncapi2.ts                                                             *)

\* the node types imported from json-schema-draft7.shared.js
JsonSchemaDraft7Shared ==
  [Dependencies |-> Imported("Dependencies"),
   Discriminator |-> Imported("Discriminator"),
   DiscriminatorMapping |-> Imported("DiscriminatorMapping"),
   Schema |-> Imported("Schema"),
   SchemaProperties |-> Imported("SchemaProperties")]

\* the node types between "Per-protocol node types" and its end
AsyncApi2_ProtocolNodeTypes ==
  [HttpChannelBinding |->
      NodeType([
        properties |-> <<>>
      ]),
   HttpServerBinding |->
      NodeType([
        properties |-> <<>>
      ]),
   HttpMessageBinding |->
      NodeType([
        properties |->
          ("headers" :> Ref("Schema")
           @@ "bindingVersion" :> Leaf([type |-> "string"]))
      ]),
   HttpOperationBinding |->
      NodeType([
        properties |->
          ("type" :> Leaf([type |-> "string"])
           @@ "method" :> Leaf([type |-> "string", enum |-> <<"GET", "POST", "PUT", "PATCH", "DELETE", "HEAD", "OPTIONS", "CONNECT", "TRACE">>])
           @@ "headers" :> Ref("Schema")
           @@ "bindingVersion" :> Leaf([type |-> "string"]))
      ]),
   WsChannelBinding |->
      NodeType([
        properties |->
          ("method" :> Leaf([type |-> "string"])
           @@ "query" :> Ref("Schema")
           @@ "headers" :> Ref("Schema")
           @@ "bindingVersion" :> Leaf([type |-> "string"]))
      ]),
   WsServerBinding |->
      NodeType([
        properties |-> <<>>
      ]),
   WsMessageBinding |->
      NodeType([
        properties |-> <<>>
      ]),
   WsOperationBinding |->
      NodeType([
        properties |-> <<>>
      ]),
   KafkaTopicConfiguration |->
      NodeType([
        properties |->
          ("cleanup.policy" :> Leaf([type |-> "array", items |-> [enum |-> <<"delete", "compact">>]])
           @@ "retention.ms" :> Leaf([type |-> "integer"])
           @@ "retention.bytes" :> Leaf([type |-> "integer"])
           @@ "delete.retention.ms" :> Leaf([type |-> "integer"])
           @@ "max.message.bytes" :> Leaf([type |-> "integer"]))
      ]),
   KafkaChannelBinding |->
      NodeType([
        properties |->
          ("topic" :> Leaf([type |-> "string"])
           @@ "partitions" :> Leaf([type |-> "integer"])
           @@ "replicas" :> Leaf([type |-> "integer"])
           @@ "topicConfiguration" :> Ref("KafkaTopicConfiguration")
           @@ "bindingVersion" :> Leaf([type |-> "string"]))
      ]),
   KafkaServerBinding |->
      NodeType([
        properties |-> <<>>
      ]),
   KafkaMessageBinding |->
      NodeType([
        properties |->
          ("key" :> Ref("Schema")
           @@ "schemaIdLocation" :> Leaf([type |-> "string"])
           @@ "schemaIdPayloadEncoding" :> Leaf([type |-> "string"])
           @@ "schemaLookupStrategy" :> Leaf([type |-> "string"])
           @@ "bindingVersion" :> Leaf([type |-> "string"]))
      ]),
   KafkaOperationBinding |->
      NodeType([
        properties |->
          ("groupId" :> Ref("Schema")
           @@ "clientId" :> Ref("Schema")
           @@ "bindingVersion" :> Leaf([type |-> "string"]))
      ]),
   AnypointmqChannelBinding |->
      NodeType([
        properties |->
          ("destination" :> Leaf([type |-> "string"])
           @@ "destinationType" :> Leaf([type |-> "string"])
           @@ "bindingVersion" :> Leaf([type |-> "string"]))
      ]),
   AnypointmqServerBinding |->
      NodeType([
        properties |-> <<>>
      ]),
   AnypointmqMessageBinding |->
      NodeType([
        properties |->
          ("headers" :> Ref("Schema")
           @@ "bindingVersion" :> Leaf([type |-> "string"]))
      ]),
   AnypointmqOperationBinding |->
      NodeType([
        properties |-> <<>>
      ]),
   AmqpChannelBinding |->
      NodeType([
        properties |-> <<>>
      ]),
   AmqpServerBinding |->
      NodeType([
        properties |-> <<>>
      ]),
   AmqpMessageBinding |->
      NodeType([
        properties |->
          ("contentEncoding" :> Leaf([type |-> "string"])
           @@ "messageType" :> Leaf([type |-> "string"])
           @@ "bindingVersion" :> Leaf([type |-> "string"]))
      ]),
   AmqpOperationBinding |->
      NodeType([
        properties |->
          ("expiration" :> Leaf([type |-> "integer"])
           @@ "userId" :> Leaf([type |-> "string"])
           @@ "cc" :> Leaf([type |-> "array", items |-> [type |-> "string"]])
           @@ "priority" :> Leaf([type |-> "integer"])
           @@ "deliveryMode" :> Leaf([type |-> "integer"])
           @@ "mandatory" :> Leaf([type |-> "boolean"])
           @@ "bcc" :> Leaf([type |-> "array", items |-> [type |-> "string"]])
           @@ "replyTo" :> Leaf([type |-> "string"])
           @@ "timestamp" :> Leaf([type |-> "boolean"])
           @@ "ack" :> Leaf([type |-> "boolean"])
           @@ "bindingVersion" :> Leaf([type |-> "string"]))
      ]),
   Amqp1ChannelBinding |->
      NodeType([
        properties |-> <<>>
      ]),
   Amqp1ServerBinding |->
      NodeType([
        properties |-> <<>>
      ]),
   Amqp1MessageBinding |->
      NodeType([
        properties |-> <<>>
      ]),
   Amqp1OperationBinding |->
      NodeType([
        properties |-> <<>>
      ]),
   MqttChannelBinding |->
      NodeType([
        properties |->
          ("qos" :> Leaf([type |-> "integer"])
           @@ "retain" :> Leaf([type |-> "boolean"])
           @@ "bindingVersion" :> Leaf([type |-> "string"]))
      ]),
   MqttServerBindingLastWill |->
      NodeType([
        properties |->
          ("topic" :> Leaf([type |-> "string"])
           @@ "qos" :> Leaf([type |-> "integer"])
           @@ "message" :> Leaf([type |-> "string"])
           @@ "retain" :> Leaf([type |-> "boolean"]))
      ]),
   MqttServerBinding |->
      NodeType([
        properties |->
          ("clientId" :> Leaf([type |-> "string"])
           @@ "cleanSession" :> Leaf([type |-> "boolean"])
           @@ "lastWill" :> Ref("MqttServerBindingLastWill")
           @@ "keepAlive" :> Leaf([type |-> "integer"])
           @@ "bindingVersion" :> Leaf([type |-> "string"]))
      ]),
   MqttMessageBinding |->
      NodeType([
        properties |->
          ("bindingVersion" :> Leaf([type |-> "string"]))
      ]),
   MqttOperationBinding |->
      NodeType([
        properties |->
          ("qos" :> Leaf([type |-> "integer"])
           @@ "retain" :> Leaf([type |-> "boolean"])
           @@ "bindingVersion" :> Leaf([type |-> "string"]))
      ]),
   Mqtt5ChannelBinding |->
      NodeType([
        properties |-> <<>>
      ]),
   Mqtt5ServerBinding |->
      NodeType([
        properties |-> <<>>
      ]),
   Mqtt5MessageBinding |->
      NodeType([
        properties |-> <<>>
      ]),
   Mqtt5OperationBinding |->
      NodeType([
        properties |-> <<>>
      ]),
   NatsChannelBinding |->
      NodeType([
        properties |-> <<>>
      ]),
   NatsServerBinding |->
      NodeType([
        properties |-> <<>>
      ]),
   NatsMessageBinding |->
      NodeType([
        properties |-> <<>>
      ]),
   NatsOperationBinding |->
      NodeType([
        properties |->
          ("queue" :> Leaf([type |-> "string"])
           @@ "bindingVersion" :> Leaf([type |-> "string"]))
      ]),
   JmsChannelBinding |->
      NodeType([
        properties |->
          ("destination" :> Leaf([type |-> "string"])
           @@ "destinationType" :> Leaf([type |-> "string"])
           @@ "bindingVersion" :> Leaf([type |-> "string"]))
      ]),
   JmsServerBinding |->
      NodeType([
        properties |-> <<>>
      ]),
   JmsMessageBinding |->
      NodeType([
        properties |->
          ("headers" :> Ref("Schema")
           @@ "bindingVersion" :> Leaf([type |-> "string"]))
      ]),
   JmsOperationBinding |->
      NodeType([
        properties |->
          ("headers" :> Ref("Schema")
           @@ "bindingVersion" :> Leaf([type |-> "string"]))
      ]),
   SolaceChannelBinding |->
      NodeType([
        properties |-> <<>>
      ]),
   SolaceServerBinding |->
      NodeType([
        properties |->
          ("bindingVersion" :> Leaf([type |-> "string"])
           @@ "msgVpn" :> Leaf([type |-> "string"]))
      ]),
   SolaceMessageBinding |->
      NodeType([
        properties |-> <<>>
      ]),
   SolaceDestination |->
      NodeType([
        properties |->
          ("destinationType" :> Leaf([type |-> "string", enum |-> <<"queue", "topic">>])
           @@ "deliveryMode" :> Leaf([type |-> "string", enum |-> <<"direct", "persistent">>])
           @@ "queue.name" :> Leaf([type |-> "string"])
           @@ "queue.topicSubscriptions" :> Leaf([type |-> "array", items |-> [type |-> "string"]])
           @@ "queue.accessType" :> Leaf([type |-> "string", enum |-> <<"exclusive", "nonexclusive">>])
           @@ "queue.maxMsgSpoolSize" :> Leaf([type |-> "string"])
           @@ "queue.maxTtl" :> Leaf([type |-> "string"])
           @@ "topic.topicSubscriptions" :> Leaf([type |-> "array", items |-> [type |-> "string"]]))
      ]),
   SolaceOperationBinding |->
      NodeType([
        properties |->
          ("bindingVersion" :> Leaf([type |-> "string"])
           @@ "destinations" :> Node(listOf("SolaceDestination", {})))
      ]),
   StompChannelBinding |->
      NodeType([
        properties |-> <<>>
      ]),
   StompServerBinding |->
      NodeType([
        properties |-> <<>>
      ]),
   StompMessageBinding |->
      NodeType([
        properties |-> <<>>
      ]),
   StompOperationBinding |->
      NodeType([
        properties |-> <<>>
      ]),
   RedisChannelBinding |->
      NodeType([
        properties |-> <<>>
      ]),
   RedisServerBinding |->
      NodeType([
        properties |-> <<>>
      ]),
   RedisMessageBinding |->
      NodeType([
        properties |-> <<>>
      ]),
   RedisOperationBinding |->
      NodeType([
        properties |-> <<>>
      ]),
   MercureChannelBinding |->
      NodeType([
        properties |-> <<>>
      ]),
   MercureServerBinding |->
      NodeType([
        properties |-> <<>>
      ]),
   MercureMessageBinding |->
      NodeType([
        properties |-> <<>>
      ]),
   MercureOperationBinding |->
      NodeType([
        properties |-> <<>>
      ])]

\* the assignments as they would be with the second one written for ChannelBindings too
AsyncApi2_Assignments_WrongTarget ==
  <<[target |-> "ChannelBindings", key |-> "http", node |-> "HttpChannelBinding"],
    [target |-> "ChannelBindings", key |-> "http", node |-> "HttpServerBinding"],
    [target |-> "MessageBindings", key |-> "http", node |-> "HttpMessageBinding"],
    [target |-> "OperationBindings", key |-> "http", node |-> "HttpOperationBinding"],
    [target |-> "ChannelBindings", key |-> "ws", node |-> "WsChannelBinding"],
    [target |-> "ServerBindings", key |-> "ws", node |-> "WsServerBinding"],
    [target |-> "MessageBindings", key |-> "ws", node |-> "WsMessageBinding"],
    [target |-> "OperationBindings", key |-> "ws", node |-> "WsOperationBinding"],
    [target |-> "ChannelBindings", key |-> "kafka", node |-> "KafkaChannelBinding"],
    [target |-> "ServerBindings", key |-> "kafka", node |-> "KafkaServerBinding"],
    [target |-> "MessageBindings", key |-> "kafka", node |-> "KafkaMessageBinding"],
    [target |-> "OperationBindings", key |-> "kafka", node |-> "KafkaOperationBinding"],
    [target |-> "ChannelBindings", key |-> "anypointmq", node |-> "AnypointmqChannelBinding"],
    [target |-> "ServerBindings", key |-> "anypointmq", node |-> "AnypointmqServerBinding"],
    [target |-> "MessageBindings", key |-> "anypointmq", node |-> "AnypointmqMessageBinding"],
    [target |-> "OperationBindings", key |-> "anypointmq", node |-> "AnypointmqOperationBinding"],
    [target |-> "ChannelBindings", key |-> "amqp", node |-> "AmqpChannelBinding"],
    [target |-> "ServerBindings", key |-> "amqp", node |-> "AmqpServerBinding"],
    [target |-> "MessageBindings", key |-> "amqp", node |-> "AmqpMessageBinding"],
    [target |-> "OperationBindings", key |-> "amqp", node |-> "AmqpOperationBinding"],
    [target |-> "ChannelBindings", key |-> "amqp1", node |-> "Amqp1ChannelBinding"],
    [target |-> "ServerBindings", key |-> "amqp1", node |-> "Amqp1ServerBinding"],
    [target |-> "MessageBindings", key |-> "amqp1", node |-> "Amqp1MessageBinding"],
    [target |-> "OperationBindings", key |-> "amqp1", node |-> "Amqp1OperationBinding"],
    [target |-> "ChannelBindings", key |-> "mqtt", node |-> "MqttChannelBinding"],
    [target |-> "ServerBindings", key |-> "mqtt", node |-> "MqttServerBinding"],
    [target |-> "MessageBindings", key |-> "mqtt", node |-> "MqttMessageBinding"],
    [target |-> "OperationBindings", key |-> "mqtt", node |-> "MqttOperationBinding"],
    [target |-> "ChannelBindings", key |-> "mqtt5", node |-> "Mqtt5ChannelBinding"],
    [target |-> "ServerBindings", key |-> "mqtt5", node |-> "Mqtt5ServerBinding"],
    [target |-> "MessageBindings", key |-> "mqtt5", node |-> "Mqtt5MessageBinding"],
    [target |-> "OperationBindings", key |-> "mqtt5", node |-> "Mqtt5OperationBinding"],
    [target |-> "ChannelBindings", key |-> "nats", node |-> "NatsChannelBinding"],
    [target |-> "ServerBindings", key |-> "nats", node |-> "NatsServerBinding"],
    [target |-> "MessageBindings", key |-> "nats", node |-> "NatsMessageBinding"],
    [target |-> "OperationBindings", key |-> "nats", node |-> "NatsOperationBinding"],
    [target |-> "ChannelBindings", key |-> "jms", node |-> "JmsChannelBinding"],
    [target |-> "ServerBindings", key |-> "jms", node |-> "JmsServerBinding"],
    [target |-> "MessageBindings", key |-> "jms", node |-> "JmsMessageBinding"],
    [target |-> "OperationBindings", key |-> "jms", node |-> "JmsOperationBinding"],
    [target |-> "ChannelBindings", key |-> "solace", node |-> "SolaceChannelBinding"],
    [target |-> "ServerBindings", key |-> "solace", node |-> "SolaceServerBinding"],
    [target |-> "MessageBindings", key |-> "solace", node |-> "SolaceMessageBinding"],
    [target |-> "OperationBindings", key |-> "solace", node |-> "SolaceOperationBinding"],
    [target |-> "ChannelBindings", key |-> "stomp", node |-> "StompChannelBinding"],
    [target |-> "ServerBindings", key |-> "stomp", node |-> "StompServerBinding"],
    [target |-> "MessageBindings", key |-> "stomp", node |-> "StompMessageBinding"],
    [target |-> "OperationBindings", key |-> "stomp", node |-> "StompOperationBinding"],
    [target |-> "ChannelBindings", key |-> "redis", node |-> "RedisChannelBinding"],
    [target |-> "ServerBindings", key |-> "redis", node |-> "RedisServerBinding"],
    [target |-> "MessageBindings", key |-> "redis", node |-> "RedisMessageBinding"],
    [target |-> "OperationBindings", key |-> "redis", node |-> "RedisOperationBinding"],
    [target |-> "ChannelBindings", key |-> "mercure", node |-> "MercureChannelBinding"],
    [target |-> "ServerBindings", key |-> "mercure", node |-> "MercureServerBinding"],
    [target |-> "MessageBindings", key |-> "mercure", node |-> "MercureMessageBinding"],
    [target |-> "OperationBindings", key |-> "mercure", node |-> "MercureOperationBinding"]>>

\* the statements `X.properties.k = Y;`, in the order they run
AsyncApi2_Assignments ==
  <<[target |-> "ChannelBindings", key |-> "http", node |-> "HttpChannelBinding"],
    [target |-> "ServerBindings", key |-> "http", node |-> "HttpServerBinding"],
    [target |-> "MessageBindings", key |-> "http", node |-> "HttpMessageBinding"],
    [target |-> "OperationBindings", key |-> "http", node |-> "HttpOperationBinding"],
    [target |-> "ChannelBindings", key |-> "ws", node |-> "WsChannelBinding"],
    [target |-> "ServerBindings", key |-> "ws", node |-> "WsServerBinding"],
    [target |-> "MessageBindings", key |-> "ws", node |-> "WsMessageBinding"],
    [target |-> "OperationBindings", key |-> "ws", node |-> "WsOperationBinding"],
    [target |-> "ChannelBindings", key |-> "kafka", node |-> "KafkaChannelBinding"],
    [target |-> "ServerBindings", key |-> "kafka", node |-> "KafkaServerBinding"],
    [target |-> "MessageBindings", key |-> "kafka", node |-> "KafkaMessageBinding"],
    [target |-> "OperationBindings", key |-> "kafka", node |-> "KafkaOperationBinding"],
    [target |-> "ChannelBindings", key |-> "anypointmq", node |-> "AnypointmqChannelBinding"],
    [target |-> "ServerBindings", key |-> "anypointmq", node |-> "AnypointmqServerBinding"],
    [target |-> "MessageBindings", key |-> "anypointmq", node |-> "AnypointmqMessageBinding"],
    [target |-> "OperationBindings", key |-> "anypointmq", node |-> "AnypointmqOperationBinding"],
    [target |-> "ChannelBindings", key |-> "amqp", node |-> "AmqpChannelBinding"],
    [target |-> "ServerBindings", key |-> "amqp", node |-> "AmqpServerBinding"],
    [target |-> "MessageBindings", key |-> "amqp", node |-> "AmqpMessageBinding"],
    [target |-> "OperationBindings", key |-> "amqp", node |-> "AmqpOperationBinding"],
    [target |-> "ChannelBindings", key |-> "amqp1", node |-> "Amqp1ChannelBinding"],
    [target |-> "ServerBindings", key |-> "amqp1", node |-> "Amqp1ServerBinding"],
    [target |-> "MessageBindings", key |-> "amqp1", node |-> "Amqp1MessageBinding"],
    [target |-> "OperationBindings", key |-> "amqp1", node |-> "Amqp1OperationBinding"],
    [target |-> "ChannelBindings", key |-> "mqtt", node |-> "MqttChannelBinding"],
    [target |-> "ServerBindings", key |-> "mqtt", node |-> "MqttServerBinding"],
    [target |-> "MessageBindings", key |-> "mqtt", node |-> "MqttMessageBinding"],
    [target |-> "OperationBindings", key |-> "mqtt", node |-> "MqttOperationBinding"],
    [target |-> "ChannelBindings", key |-> "mqtt5", node |-> "Mqtt5ChannelBinding"],
    [target |-> "ServerBindings", key |-> "mqtt5", node |-> "Mqtt5ServerBinding"],
    [target |-> "MessageBindings", key |-> "mqtt5", node |-> "Mqtt5MessageBinding"],
    [target |-> "OperationBindings", key |-> "mqtt5", node |-> "Mqtt5OperationBinding"],
    [target |-> "ChannelBindings", key |-> "nats", node |-> "NatsChannelBinding"],
    [target |-> "ServerBindings", key |-> "nats", node |-> "NatsServerBinding"],
    [target |-> "MessageBindings", key |-> "nats", node |-> "NatsMessageBinding"],
    [target |-> "OperationBindings", key |-> "nats", node |-> "NatsOperationBinding"],
    [target |-> "ChannelBindings", key |-> "jms", node |-> "JmsChannelBinding"],
    [target |-> "ServerBindings", key |-> "jms", node |-> "JmsServerBinding"],
    [target |-> "MessageBindings", key |-> "jms", node |-> "JmsMessageBinding"],
    [target |-> "OperationBindings", key |-> "jms", node |-> "JmsOperationBinding"],
    [target |-> "ChannelBindings", key |-> "solace", node |-> "SolaceChannelBinding"],
    [target |-> "ServerBindings", key |-> "solace", node |-> "SolaceServerBinding"],
    [target |-> "MessageBindings", key |-> "solace", node |-> "SolaceMessageBinding"],
    [target |-> "OperationBindings", key |-> "solace", node |-> "SolaceOperationBinding"],
    [target |-> "ChannelBindings", key |-> "stomp", node |-> "StompChannelBinding"],
    [target |-> "ServerBindings", key |-> "stomp", node |-> "StompServerBinding"],
    [target |-> "MessageBindings", key |-> "stomp", node |-> "StompMessageBinding"],
    [target |-> "OperationBindings", key |-> "stomp", node |-> "StompOperationBinding"],
    [target |-> "ChannelBindings", key |-> "redis", node |-> "RedisChannelBinding"],
    [target |-> "ServerBindings", key |-> "redis", node |-> "RedisServerBinding"],
    [target |-> "MessageBindings", key |-> "redis", node |-> "RedisMessageBinding"],
    [target |-> "OperationBindings", key |-> "redis", node |-> "RedisOperationBinding"],
    [target |-> "ChannelBindings", key |-> "mercure", node |-> "MercureChannelBinding"],
    [target |-> "ServerBindings", key |-> "mercure", node |-> "MercureServerBinding"],
    [target |-> "MessageBindings", key |-> "mercure", node |-> "MercureMessageBinding"],
    [target |-> "OperationBindings", key |-> "mercure", node |-> "MercureOperationBinding"]>>

\* the properties of a bindings node type: what the assignments have put there so far
BindingProperties(name) ==
  [k \in DOMAIN bindingProps[name] |->
     Node(AsyncApi2_ProtocolNodeTypes[bindingProps[name][k]])]

\* the AsyncAPI Root as it would be with the extensionsPrefix the OAS3 Root has
AsyncApi2_Root_WithExtensions ==
  NodeType([
    properties |->
      ("asyncapi" :> None
       @@ "info" :> Ref("Info")
       @@ "id" :> Leaf([type |-> "string"])
       @@ "servers" :> Ref("ServerMap")
       @@ "channels" :> Ref("ChannelMap")
       @@ "components" :> Ref("Components")
       @@ "tags" :> Ref("TagList")
       @@ "externalDocs" :> Ref("ExternalDocs")
       @@ "defaultContentType" :> Leaf([type |-> "string"])),
    required |-> KeyList(<<"asyncapi", "channels", "info">>),
    extensionsPrefix |-> <<"x", "-">>
  ])

\* the AsyncAPI Root as it would be with `asyncapi` validated as a string
AsyncApi2_Root_VersionString ==
  NodeType([
    properties |->
      ("asyncapi" :> Leaf([type |-> "string"])
       @@ "info" :> Ref("Info")
       @@ "id" :> Leaf([type |-> "string"])
       @@ "servers" :> Ref("ServerMap")
       @@ "channels" :> Ref("ChannelMap")
       @@ "components" :> Ref("Components")
       @@ "tags" :> Ref("TagList")
       @@ "externalDocs" :> Ref("ExternalDocs")
       @@ "defaultContentType" :> Leaf([type |-> "string"])),
    required |-> KeyList(<<"asyncapi", "channels", "info">>)
  ])

AsyncApi2_Root ==
  NodeType([
    properties |->
      ("asyncapi" :> None
       @@ "info" :> Ref("Info")
       @@ "id" :> Leaf([type |-> "string"])
       @@ "servers" :> Ref("ServerMap")
       @@ "channels" :> Ref("ChannelMap")
       @@ "components" :> Ref("Components")
       @@ "tags" :> Ref("TagList")
       @@ "externalDocs" :> Ref("ExternalDocs")
       @@ "defaultContentType" :> Leaf([type |-> "string"])),
    required |-> KeyList(<<"asyncapi", "channels", "info">>)
  ])

AsyncApi2_Channel ==
  NodeType([
    properties |->
      ("description" :> Leaf([type |-> "string"])
       @@ "subscribe" :> Ref("Operation")
       @@ "publish" :> Ref("Operation")
       @@ "parameters" :> Ref("ParametersMap")
       @@ "bindings" :> Ref("ChannelBindings")
       @@ "servers" :> Leaf([type |-> "array", items |-> [type |-> "string"]]))
  ])

AsyncApi2_ChannelMap ==
  NodeType([
    properties |-> <<>>,
    additionalProperties |-> Ref("Channel")
  ])

\* ChannelBindings.allowed as it would be with `kafka` left out of the list
AsyncApi2_ChannelBindings_allowed_WithoutKafka(value) ==
  <<"http", "ws", "anypointmq", "amqp", "amqp1", "mqtt",
    "mqtt5", "nats", "jms", "sns", "solace", "sqs", "stomp",
    "redis", "mercure", "ibmmq", "googlepubsub", "pulsar">>

\* ChannelBindings.allowed
AsyncApi2_ChannelBindings_allowed(value) ==
  <<"http", "ws", "kafka", "anypointmq", "amqp", "amqp1", "mqtt",
    "mqtt5", "nats", "jms", "sns", "solace", "sqs", "stomp",
    "redis", "mercure", "ibmmq", "googlepubsub", "pulsar">>

AsyncApi2_ChannelBindings ==
  NodeType([
    properties |-> BindingProperties("ChannelBindings"),
    allowed |-> KeysFn("AsyncApi2_ChannelBindings_allowed"),
    additionalProperties |-> Leaf([type |-> "object"])
  ])

AsyncApi2_Tag ==
  NodeType([
    properties |->
      ("name" :> Leaf([type |-> "string"])
       @@ "description" :> Leaf([type |-> "string"])
       @@ "externalDocs" :> Ref("ExternalDocs")),
    required |-> KeyList(<<"name">>)
  ])

AsyncApi2_ExternalDocs ==
  NodeType([
    properties |->
      ("description" :> Leaf([type |-> "string"])
       @@ "url" :> Leaf([type |-> "string"])),
    required |-> KeyList(<<"url">>)
  ])

AsyncApi2_SecurityRequirement ==
  NodeType([
    properties |-> <<>>,
    additionalProperties |-> Leaf([type |-> "array", items |-> [type |-> "string"]])
  ])

\* ServerBindings.allowed
AsyncApi2_ServerBindings_allowed(value) ==
  <<"http", "ws", "kafka", "anypointmq", "amqp", "amqp1", "mqtt",
    "mqtt5", "nats", "jms", "sns", "solace", "sqs", "stomp",
    "redis", "mercure", "ibmmq", "googlepubsub", "pulsar">>

AsyncApi2_ServerBindings ==
  NodeType([
    properties |-> BindingProperties("ServerBindings"),
    allowed |-> KeysFn("AsyncApi2_ServerBindings_allowed"),
    additionalProperties |-> Leaf([type |-> "object"])
  ])

AsyncApi2_Server ==
  NodeType([
    properties |->
      ("url" :> Leaf([type |-> "string"])
       @@ "protocol" :> Leaf([type |-> "string"])
       @@ "protocolVersion" :> Leaf([type |-> "string"])
       @@ "description" :> Leaf([type |-> "string"])
       @@ "variables" :> Ref("ServerVariablesMap")
       @@ "security" :> Ref("SecurityRequirementList")
       @@ "bindings" :> Ref("ServerBindings")
       @@ "tags" :> Ref("TagList")),
    required |-> KeyList(<<"url", "protocol">>)
  ])

\* ServerMap.additionalProperties as it would be with the pattern /^[A-Za-z0-9_.\-]+$/
AsyncApi2_ServerMap_additionalProperties_WithDots(value, key) ==
  IF /\ key # <<>>
     /\ \A i \in DOMAIN key : key[i] \in UpperCase \cup LowerCase \cup Digit \cup {"_", "-", "."}
  THEN Ref("Server")
  ELSE Undefined

\* ServerMap.additionalProperties
AsyncApi2_ServerMap_additionalProperties(value, key) ==
  IF /\ key # <<>>
     /\ \A i \in DOMAIN key : key[i] \in UpperCase \cup LowerCase \cup Digit \cup {"_", "-"}
  THEN Ref("Server")
  ELSE Undefined

AsyncApi2_ServerMap ==
  NodeType([
    properties |-> <<>>,
    additionalProperties |-> Resolver("AsyncApi2_ServerMap_additionalProperties")
  ])

AsyncApi2_ServerVariable ==
  NodeType([
    properties |->
      ("enum" :> Leaf([type |-> "array", items |-> [type |-> "string"]])
       @@ "default" :> Leaf([type |-> "string"])
       @@ "description" :> Leaf([type |-> "string"])
       @@ "examples" :> Leaf([type |-> "array", items |-> [type |-> "string"]])),
    required |-> KeyList(<<>>)
  ])

AsyncApi2_Info ==
  NodeType([
    properties |->
      ("title" :> Leaf([type |-> "string"])
       @@ "version" :> Leaf([type |-> "string"])
       @@ "description" :> Leaf([type |-> "string"])
       @@ "termsOfService" :> Leaf([type |-> "string"])
       @@ "contact" :> Ref("Contact")
       @@ "license" :> Ref("License")),
    required |-> KeyList(<<"title", "version">>)
  ])

AsyncApi2_Contact ==
  NodeType([
    properties |->
      ("name" :> Leaf([type |-> "string"])
       @@ "url" :> Leaf([type |-> "string"])
       @@ "email" :> Leaf([type |-> "string"]))
  ])

AsyncApi2_License ==
  NodeType([
    properties |->
      ("name" :> Leaf([type |-> "string"])
       @@ "url" :> Leaf([type |-> "string"])),
    required |-> KeyList(<<"name">>)
  ])

AsyncApi2_Parameter ==
  NodeType([
    properties |->
      ("description" :> Leaf([type |-> "string"])
       @@ "schema" :> Ref("Schema")
       @@ "location" :> Leaf([type |-> "string"]))
  ])

AsyncApi2_CorrelationId ==
  NodeType([
    properties |->
      ("description" :> Leaf([type |-> "string"])
       @@ "location" :> Leaf([type |-> "string"])),
    required |-> KeyList(<<"location">>)
  ])

AsyncApi2_Message ==
  NodeType([
    properties |->
      ("messageId" :> Leaf([type |-> "string"])
       @@ "headers" :> Ref("Schema")
       @@ "payload" :> Ref("Schema")
       @@ "correlationId" :> Ref("CorrelationId")
       @@ "schemaFormat" :> Leaf([type |-> "string"])
       @@ "contentType" :> Leaf([type |-> "string"])
       @@ "name" :> Leaf([type |-> "string"])
       @@ "title" :> Leaf([type |-> "string"])
       @@ "summary" :> Leaf([type |-> "string"])
       @@ "description" :> Leaf([type |-> "string"])
       @@ "tags" :> Ref("TagList")
       @@ "externalDocs" :> Ref("ExternalDocs")
       @@ "bindings" :> Ref("MessageBindings")
       @@ "examples" :> Ref("MessageExampleList")
       @@ "traits" :> Ref("MessageTraitList")),
    additionalProperties |-> Leaf(<<>>)
  ])

\* MessageBindings.allowed
AsyncApi2_MessageBindings_allowed(value) ==
  <<"http", "ws", "kafka", "anypointmq", "amqp", "amqp1", "mqtt",
    "mqtt5", "nats", "jms", "sns", "solace", "sqs", "stomp",
    "redis", "mercure", "ibmmq", "googlepubsub", "pulsar">>

\* MessageBindings as it would be with an extensionsPrefix
AsyncApi2_MessageBindings_WithExtensions ==
  NodeType([
    properties |-> BindingProperties("MessageBindings"),
    allowed |-> KeysFn("AsyncApi2_MessageBindings_allowed"),
    additionalProperties |-> Leaf([type |-> "object"]),
    extensionsPrefix |-> <<"x", "-">>
  ])

AsyncApi2_MessageBindings ==
  NodeType([
    properties |-> BindingProperties("MessageBindings"),
    allowed |-> KeysFn("AsyncApi2_MessageBindings_allowed"),
    additionalProperties |-> Leaf([type |-> "object"])
  ])

\* OperationBindings.allowed
AsyncApi2_OperationBindings_allowed(value) ==
  <<"http", "ws", "kafka", "anypointmq", "amqp", "amqp1", "mqtt",
    "mqtt5", "nats", "jms", "sns", "solace", "sqs", "stomp",
    "redis", "mercure", "ibmmq", "googlepubsub", "pulsar">>

AsyncApi2_OperationBindings ==
  NodeType([
    properties |-> BindingProperties("OperationBindings"),
    allowed |-> KeysFn("AsyncApi2_OperationBindings_allowed"),
    additionalProperties |-> Leaf([type |-> "object"])
  ])

AsyncApi2_OperationTrait ==
  NodeType([
    properties |->
      ("tags" :> Ref("TagList")
       @@ "summary" :> Leaf([type |-> "string"])
       @@ "description" :> Leaf([type |-> "string"])
       @@ "externalDocs" :> Ref("ExternalDocs")
       @@ "operationId" :> Leaf([type |-> "string"])
       @@ "security" :> Ref("SecurityRequirementList")
       @@ "bindings" :> Ref("OperationBindings")),
    required |-> KeyList(<<>>)
  ])

AsyncApi2_MessageTrait ==
  NodeType([
    properties |->
      ("messageId" :> Leaf([type |-> "string"])
       @@ "headers" :> Ref("Schema")
       @@ "correlationId" :> Ref("CorrelationId")
       @@ "schemaFormat" :> Leaf([type |-> "string"])
       @@ "contentType" :> Leaf([type |-> "string"])
       @@ "name" :> Leaf([type |-> "string"])
       @@ "title" :> Leaf([type |-> "string"])
       @@ "summary" :> Leaf([type |-> "string"])
       @@ "description" :> Leaf([type |-> "string"])
       @@ "tags" :> Ref("TagList")
       @@ "externalDocs" :> Ref("ExternalDocs")
       @@ "bindings" :> Ref("MessageBindings")
       @@ "examples" :> Ref("MessageExampleList")),
    additionalProperties |-> Leaf(<<>>)
  ])

AsyncApi2_Operation ==
  NodeType([
    properties |->
      ("tags" :> Ref("TagList")
       @@ "summary" :> Leaf([type |-> "string"])
       @@ "description" :> Leaf([type |-> "string"])
       @@ "externalDocs" :> Ref("ExternalDocs")
       @@ "operationId" :> Leaf([type |-> "string"])
       @@ "security" :> Ref("SecurityRequirementList")
       @@ "bindings" :> Ref("OperationBindings")
       @@ "traits" :> Ref("OperationTraitList")
       @@ "message" :> Ref("Message")),
    required |-> KeyList(<<>>)
  ])

AsyncApi2_MessageExample ==
  NodeType([
    properties |->
      ("payload" :> Leaf([isExample |-> TRUE])
       @@ "summary" :> Leaf([type |-> "string"])
       @@ "name" :> Leaf([type |-> "string"])
       @@ "headers" :> Leaf([type |-> "object"]))
  ])

AsyncApi2_Components ==
  NodeType([
    properties |->
      ("messages" :> Ref("NamedMessages")
       @@ "parameters" :> Ref("NamedParameters")
       @@ "schemas" :> Ref("NamedSchemas")
       @@ "correlationIds" :> Ref("NamedCorrelationIds")
       @@ "messageTraits" :> Ref("NamedMessageTraits")
       @@ "operationTraits" :> Ref("NamedOperationTraits")
       @@ "securitySchemes" :> Ref("NamedSecuritySchemes")
       @@ "servers" :> Ref("ServerMap")
       @@ "serverVariables" :> Ref("ServerVariablesMap")
       @@ "channels" :> Ref("ChannelMap")
       @@ "serverBindings" :> Ref("ServerBindings")
       @@ "channelBindings" :> Ref("ChannelBindings")
       @@ "operationBindings" :> Ref("OperationBindings")
       @@ "messageBindings" :> Ref("MessageBindings"))
  ])

AsyncApi2_ImplicitFlow ==
  NodeType([
    properties |->
      ("refreshUrl" :> Leaf([type |-> "string"])
       @@ "scopes" :> Leaf([type |-> "object", additionalProperties |-> [type |-> "string"]])
       @@ "authorizationUrl" :> Leaf([type |-> "string"])),
    required |-> KeyList(<<"authorizationUrl", "scopes">>)
  ])

AsyncApi2_PasswordFlow ==
  NodeType([
    properties |->
      ("refreshUrl" :> Leaf([type |-> "string"])
       @@ "scopes" :> Leaf([type |-> "object", additionalProperties |-> [type |-> "string"]])
       @@ "tokenUrl" :> Leaf([type |-> "string"])),
    required |-> KeyList(<<"tokenUrl", "scopes">>)
  ])

AsyncApi2_ClientCredentials ==
  NodeType([
    properties |->
      ("refreshUrl" :> Leaf([type |-> "string"])
       @@ "scopes" :> Leaf([type |-> "object", additionalProperties |-> [type |-> "string"]])
       @@ "tokenUrl" :> Leaf([type |-> "string"])),
    required |-> KeyList(<<"tokenUrl", "scopes">>)
  ])

AsyncApi2_AuthorizationCode ==
  NodeType([
    properties |->
      ("refreshUrl" :> Leaf([type |-> "string"])
       @@ "authorizationUrl" :> Leaf([type |-> "string"])
       @@ "scopes" :> Leaf([type |-> "object", additionalProperties |-> [type |-> "string"]])
       @@ "tokenUrl" :> Leaf([type |-> "string"])),
    required |-> KeyList(<<"authorizationUrl", "tokenUrl", "scopes">>)
  ])

AsyncApi2_SecuritySchemeFlows ==
  NodeType([
    properties |->
      ("implicit" :> Ref("ImplicitFlow")
       @@ "password" :> Ref("PasswordFlow")
       @@ "clientCredentials" :> Ref("ClientCredentials")
       @@ "authorizationCode" :> Ref("AuthorizationCode"))
  ])

\* SecurityScheme.required
AsyncApi2_SecurityScheme_required(value) ==
  LET type == TypeField(value) IN
  CASE IsStr(type, "apiKey") -> <<"type", "in">>
    [] IsStr(type, "httpApiKey") -> <<"type", "name", "in">>
    [] IsStr(type, "http") -> <<"type", "scheme">>
    [] IsStr(type, "oauth2") -> <<"type", "flows">>
    [] IsStr(type, "openIdConnect") -> <<"type", "openIdConnectUrl">>
    [] OTHER -> <<"type">>

\* SecurityScheme.allowed as it would be with the httpApiKey case returning the list of the apiKey case
AsyncApi2_SecurityScheme_allowed_HttpApiKeyWithoutName(value) ==
  LET type == TypeField(value) IN
  CASE IsStr(type, "apiKey") -> <<"type", "in", "description">>
    [] IsStr(type, "httpApiKey") -> <<"type", "in", "description">>
    [] IsStr(type, "http") -> <<"type", "scheme", "bearerFormat", "description">>
    [] IsStr(type, "oauth2") -> <<"type", "flows", "description">>
    [] IsStr(type, "openIdConnect") -> <<"type", "openIdConnectUrl", "description">>
    [] OTHER -> <<"type", "description">>

\* SecurityScheme.allowed
AsyncApi2_SecurityScheme_allowed(value) ==
  LET type == TypeField(value) IN
  CASE IsStr(type, "apiKey") -> <<"type", "in", "description">>
    [] IsStr(type, "httpApiKey") -> <<"type", "name", "in", "description">>
    [] IsStr(type, "http") -> <<"type", "scheme", "bearerFormat", "description">>
    [] IsStr(type, "oauth2") -> <<"type", "flows", "description">>
    [] IsStr(type, "openIdConnect") -> <<"type", "openIdConnectUrl", "description">>
    [] OTHER -> <<"type", "description">>

AsyncApi2_SecurityScheme ==
  NodeType([
    properties |->
      ("type" :> Leaf([enum |-> <<"userPassword", "apiKey", "X509", "symmetricEncryption", "asymmetricEncryption", "httpApiKey", "http", "oauth2", "openIdConnect", "plain", "scramSha256", "scramSha512", "gssapi">>])
       @@ "description" :> Leaf([type |-> "string"])
       @@ "name" :> Leaf([type |-> "string"])
       @@ "in" :> Leaf([type |-> "string", enum |-> <<"query", "header", "cookie", "user", "password">>])
       @@ "scheme" :> Leaf([type |-> "string"])
       @@ "bearerFormat" :> Leaf([type |-> "string"])
       @@ "flows" :> Ref("SecuritySchemeFlows")
       @@ "openIdConnectUrl" :> Leaf([type |-> "string"])),
    required |-> KeysFn("AsyncApi2_SecurityScheme_required"),
    allowed |-> KeysFn("AsyncApi2_SecurityScheme_allowed"),
    extensionsPrefix |-> <<"x", "-">>
  ])

AsyncApi2Bindings ==
  [HttpServerBinding |-> AsyncApi2_ProtocolNodeTypes.HttpServerBinding,
   HttpChannelBinding |-> AsyncApi2_ProtocolNodeTypes.HttpChannelBinding,
   HttpMessageBinding |-> AsyncApi2_ProtocolNodeTypes.HttpMessageBinding,
   HttpOperationBinding |-> AsyncApi2_ProtocolNodeTypes.HttpOperationBinding,
   WsServerBinding |-> AsyncApi2_ProtocolNodeTypes.WsServerBinding,
   WsChannelBinding |-> AsyncApi2_ProtocolNodeTypes.WsChannelBinding,
   WsMessageBinding |-> AsyncApi2_ProtocolNodeTypes.WsMessageBinding,
   WsOperationBinding |-> AsyncApi2_ProtocolNodeTypes.WsOperationBinding,
   KafkaServerBinding |-> AsyncApi2_ProtocolNodeTypes.KafkaServerBinding,
   KafkaTopicConfiguration |-> AsyncApi2_ProtocolNodeTypes.KafkaTopicConfiguration,
   KafkaChannelBinding |-> AsyncApi2_ProtocolNodeTypes.KafkaChannelBinding,
   KafkaMessageBinding |-> AsyncApi2_ProtocolNodeTypes.KafkaMessageBinding,
   KafkaOperationBinding |-> AsyncApi2_ProtocolNodeTypes.KafkaOperationBinding,
   AnypointmqServerBinding |-> AsyncApi2_ProtocolNodeTypes.AnypointmqServerBinding,
   AnypointmqChannelBinding |-> AsyncApi2_ProtocolNodeTypes.AnypointmqChannelBinding,
   AnypointmqMessageBinding |-> AsyncApi2_ProtocolNodeTypes.AnypointmqMessageBinding,
   AnypointmqOperationBinding |-> AsyncApi2_ProtocolNodeTypes.AnypointmqOperationBinding,
   AmqpServerBinding |-> AsyncApi2_ProtocolNodeTypes.AmqpServerBinding,
   AmqpChannelBinding |-> AsyncApi2_ProtocolNodeTypes.AmqpChannelBinding,
   AmqpMessageBinding |-> AsyncApi2_ProtocolNodeTypes.AmqpMessageBinding,
   AmqpOperationBinding |-> AsyncApi2_ProtocolNodeTypes.AmqpOperationBinding,
   Amqp1ServerBinding |-> AsyncApi2_ProtocolNodeTypes.Amqp1ServerBinding,
   Amqp1ChannelBinding |-> AsyncApi2_ProtocolNodeTypes.Amqp1ChannelBinding,
   Amqp1MessageBinding |-> AsyncApi2_ProtocolNodeTypes.Amqp1MessageBinding,
   Amqp1OperationBinding |-> AsyncApi2_ProtocolNodeTypes.Amqp1OperationBinding,
   MqttServerBindingLastWill |-> AsyncApi2_ProtocolNodeTypes.MqttServerBindingLastWill,
   MqttServerBinding |-> AsyncApi2_ProtocolNodeTypes.MqttServerBinding,
   MqttChannelBinding |-> AsyncApi2_ProtocolNodeTypes.MqttChannelBinding,
   MqttMessageBinding |-> AsyncApi2_ProtocolNodeTypes.MqttMessageBinding,
   MqttOperationBinding |-> AsyncApi2_ProtocolNodeTypes.MqttOperationBinding,
   Mqtt5ServerBinding |-> AsyncApi2_ProtocolNodeTypes.Mqtt5ServerBinding,
   Mqtt5ChannelBinding |-> AsyncApi2_ProtocolNodeTypes.Mqtt5ChannelBinding,
   Mqtt5MessageBinding |-> AsyncApi2_ProtocolNodeTypes.Mqtt5MessageBinding,
   Mqtt5OperationBinding |-> AsyncApi2_ProtocolNodeTypes.Mqtt5OperationBinding,
   NatsServerBinding |-> AsyncApi2_ProtocolNodeTypes.NatsServerBinding,
   NatsChannelBinding |-> AsyncApi2_ProtocolNodeTypes.NatsChannelBinding,
   NatsMessageBinding |-> AsyncApi2_ProtocolNodeTypes.NatsMessageBinding,
   NatsOperationBinding |-> AsyncApi2_ProtocolNodeTypes.NatsOperationBinding,
   JmsServerBinding |-> AsyncApi2_ProtocolNodeTypes.JmsServerBinding,
   JmsChannelBinding |-> AsyncApi2_ProtocolNodeTypes.JmsChannelBinding,
   JmsMessageBinding |-> AsyncApi2_ProtocolNodeTypes.JmsMessageBinding,
   JmsOperationBinding |-> AsyncApi2_ProtocolNodeTypes.JmsOperationBinding,
   SolaceServerBinding |-> AsyncApi2_ProtocolNodeTypes.SolaceServerBinding,
   SolaceChannelBinding |-> AsyncApi2_ProtocolNodeTypes.SolaceChannelBinding,
   SolaceMessageBinding |-> AsyncApi2_ProtocolNodeTypes.SolaceMessageBinding,
   SolaceDestination |-> AsyncApi2_ProtocolNodeTypes.SolaceDestination,
   SolaceOperationBinding |-> AsyncApi2_ProtocolNodeTypes.SolaceOperationBinding,
   StompServerBinding |-> AsyncApi2_ProtocolNodeTypes.StompServerBinding,
   StompChannelBinding |-> AsyncApi2_ProtocolNodeTypes.StompChannelBinding,
   StompMessageBinding |-> AsyncApi2_ProtocolNodeTypes.StompMessageBinding,
   StompOperationBinding |-> AsyncApi2_ProtocolNodeTypes.StompOperationBinding,
   RedisServerBinding |-> AsyncApi2_ProtocolNodeTypes.RedisServerBinding,
   RedisChannelBinding |-> AsyncApi2_ProtocolNodeTypes.RedisChannelBinding,
   RedisMessageBinding |-> AsyncApi2_ProtocolNodeTypes.RedisMessageBinding,
   RedisOperationBinding |-> AsyncApi2_ProtocolNodeTypes.RedisOperationBinding,
   MercureServerBinding |-> AsyncApi2_ProtocolNodeTypes.MercureServerBinding,
   MercureChannelBinding |-> AsyncApi2_ProtocolNodeTypes.MercureChannelBinding,
   MercureMessageBinding |-> AsyncApi2_ProtocolNodeTypes.MercureMessageBinding,
   MercureOperationBinding |-> AsyncApi2_ProtocolNodeTypes.MercureOperationBinding,
   ServerBindings |-> AsyncApi2_ServerBindings,
   ChannelBindings |-> AsyncApi2_ChannelBindings,
   MessageBindings |-> AsyncApi2_MessageBindings,
   OperationBindings |-> AsyncApi2_OperationBindings]

\* AsyncApi2Types as it would be with ParametersMap built for another value type
AsyncApi2Types_ParametersMapOfMessages ==
  [Root |-> AsyncApi2_Root,
   Tag |-> AsyncApi2_Tag,
   TagList |-> listOf("Tag", {}),
   ServerMap |-> AsyncApi2_ServerMap,
   ExternalDocs |-> AsyncApi2_ExternalDocs,
   Server |-> AsyncApi2_Server,
   ServerVariable |-> AsyncApi2_ServerVariable,
   ServerVariablesMap |-> mapOf("ServerVariable", {}),
   SecurityRequirement |-> AsyncApi2_SecurityRequirement,
   SecurityRequirementList |-> listOf("SecurityRequirement", {}),
   Info |-> AsyncApi2_Info,
   Contact |-> AsyncApi2_Contact,
   License |-> AsyncApi2_License,
   ChannelMap |-> AsyncApi2_ChannelMap,
   Channel |-> AsyncApi2_Channel,
   Parameter |-> AsyncApi2_Parameter,
   ParametersMap |-> mapOf("Message", {}),
   Operation |-> AsyncApi2_Operation,
   Schema |-> JsonSchemaDraft7Shared.Schema,
   MessageExample |-> AsyncApi2_MessageExample,
   SchemaProperties |-> JsonSchemaDraft7Shared.SchemaProperties,
   DiscriminatorMapping |-> JsonSchemaDraft7Shared.DiscriminatorMapping,
   Discriminator |-> JsonSchemaDraft7Shared.Discriminator,
   Components |-> AsyncApi2_Components,
   NamedSchemas |-> mapOf("Schema", {}),
   NamedMessages |-> mapOf("Message", {}),
   NamedMessageTraits |-> mapOf("MessageTrait", {}),
   NamedOperationTraits |-> mapOf("OperationTrait", {}),
   NamedParameters |-> mapOf("Parameter", {}),
   NamedSecuritySchemes |-> mapOf("SecurityScheme", {}),
   NamedCorrelationIds |-> mapOf("CorrelationId", {}),
   ImplicitFlow |-> AsyncApi2_ImplicitFlow,
   PasswordFlow |-> AsyncApi2_PasswordFlow,
   ClientCredentials |-> AsyncApi2_ClientCredentials,
   AuthorizationCode |-> AsyncApi2_AuthorizationCode,
   SecuritySchemeFlows |-> AsyncApi2_SecuritySchemeFlows,
   SecurityScheme |-> AsyncApi2_SecurityScheme,
   Message |-> AsyncApi2_Message,
   MessageBindings |-> AsyncApi2_MessageBindings,
   OperationBindings |-> AsyncApi2_OperationBindings,
   OperationTrait |-> AsyncApi2_OperationTrait,
   OperationTraitList |-> listOf("OperationTrait", {}),
   MessageTrait |-> AsyncApi2_MessageTrait,
   MessageTraitList |-> listOf("MessageTrait", {}),
   MessageExampleList |-> listOf("MessageExample", {}),
   CorrelationId |-> AsyncApi2_CorrelationId,
   Dependencies |-> JsonSchemaDraft7Shared.Dependencies]
  @@ AsyncApi2Bindings

\* AsyncApi2Types as it would be with the explicit MessageBindings key holding another node type than the spread's
AsyncApi2Types_MessageBindingsAnew ==
  [Root |-> AsyncApi2_Root,
   Tag |-> AsyncApi2_Tag,
   TagList |-> listOf("Tag", {}),
   ServerMap |-> AsyncApi2_ServerMap,
   ExternalDocs |-> AsyncApi2_ExternalDocs,
   Server |-> AsyncApi2_Server,
   ServerVariable |-> AsyncApi2_ServerVariable,
   ServerVariablesMap |-> mapOf("ServerVariable", {}),
   SecurityRequirement |-> AsyncApi2_SecurityRequirement,
   SecurityRequirementList |-> listOf("SecurityRequirement", {}),
   Info |-> AsyncApi2_Info,
   Contact |-> AsyncApi2_Contact,
   License |-> AsyncApi2_License,
   ChannelMap |-> AsyncApi2_ChannelMap,
   Channel |-> AsyncApi2_Channel,
   Parameter |-> AsyncApi2_Parameter,
   ParametersMap |-> mapOf("Parameter", {}),
   Operation |-> AsyncApi2_Operation,
   Schema |-> JsonSchemaDraft7Shared.Schema,
   MessageExample |-> AsyncApi2_MessageExample,
   SchemaProperties |-> JsonSchemaDraft7Shared.SchemaProperties,
   DiscriminatorMapping |-> JsonSchemaDraft7Shared.DiscriminatorMapping,
   Discriminator |-> JsonSchemaDraft7Shared.Discriminator,
   Components |-> AsyncApi2_Components,
   NamedSchemas |-> mapOf("Schema", {}),
   NamedMessages |-> mapOf("Message", {}),
   NamedMessageTraits |-> mapOf("MessageTrait", {}),
   NamedOperationTraits |-> mapOf("OperationTrait", {}),
   NamedParameters |-> mapOf("Parameter", {}),
   NamedSecuritySchemes |-> mapOf("SecurityScheme", {}),
   NamedCorrelationIds |-> mapOf("CorrelationId", {}),
   ImplicitFlow |-> AsyncApi2_ImplicitFlow,
   PasswordFlow |-> AsyncApi2_PasswordFlow,
   ClientCredentials |-> AsyncApi2_ClientCredentials,
   AuthorizationCode |-> AsyncApi2_AuthorizationCode,
   SecuritySchemeFlows |-> AsyncApi2_SecuritySchemeFlows,
   SecurityScheme |-> AsyncApi2_SecurityScheme,
   Message |-> AsyncApi2_Message,
   MessageBindings |-> AsyncApi2_OperationBindings,
   OperationBindings |-> AsyncApi2_OperationBindings,
   OperationTrait |-> AsyncApi2_OperationTrait,
   OperationTraitList |-> listOf("OperationTrait", {}),
   MessageTrait |-> AsyncApi2_MessageTrait,
   MessageTraitList |-> listOf("MessageTrait", {}),
   MessageExampleList |-> listOf("MessageExample", {}),
   CorrelationId |-> AsyncApi2_CorrelationId,
   Dependencies |-> JsonSchemaDraft7Shared.Dependencies]
  @@ AsyncApi2Bindings

\* { ...AsyncApi2Bindings, Root, ... }: a key written after the spread replaces the spread's
AsyncApi2Types ==
  [Root |-> AsyncApi2_Root,
   Tag |-> AsyncApi2_Tag,
   TagList |-> listOf("Tag", {}),
   ServerMap |-> AsyncApi2_ServerMap,
   ExternalDocs |-> AsyncApi2_ExternalDocs,
   Server |-> AsyncApi2_Server,
   ServerVariable |-> AsyncApi2_ServerVariable,
   ServerVariablesMap |-> mapOf("ServerVariable", {}),
   SecurityRequirement |-> AsyncApi2_SecurityRequirement,
   SecurityRequirementList |-> listOf("SecurityRequirement", {}),
   Info |-> AsyncApi2_Info,
   Contact |-> AsyncApi2_Contact,
   License |-> AsyncApi2_License,
   ChannelMap |-> AsyncApi2_ChannelMap,
   Channel |-> AsyncApi2_Channel,
   Parameter |-> AsyncApi2_Parameter,
   ParametersMap |-> mapOf("Parameter", {}),
   Operation |-> AsyncApi2_Operation,
   Schema |-> JsonSchemaDraft7Shared.Schema,
   MessageExample |-> AsyncApi2_MessageExample,
   SchemaProperties |-> JsonSchemaDraft7Shared.SchemaProperties,
   DiscriminatorMapping |-> JsonSchemaDraft7Shared.DiscriminatorMapping,
   Discriminator |-> JsonSchemaDraft7Shared.Discriminator,
   Components |-> AsyncApi2_Components,
   NamedSchemas |-> mapOf("Schema", {}),
   NamedMessages |-> mapOf("Message", {}),
   NamedMessageTraits |-> mapOf("MessageTrait", {}),
   NamedOperationTraits |-> mapOf("OperationTrait", {}),
   NamedParameters |-> mapOf("Parameter", {}),
   NamedSecuritySchemes |-> mapOf("SecurityScheme", {}),
   NamedCorrelationIds |-> mapOf("CorrelationId", {}),
   ImplicitFlow |-> AsyncApi2_ImplicitFlow,
   PasswordFlow |-> AsyncApi2_PasswordFlow,
   ClientCredentials |-> AsyncApi2_ClientCredentials,
   AuthorizationCode |-> AsyncApi2_AuthorizationCode,
   SecuritySchemeFlows |-> AsyncApi2_SecuritySchemeFlows,
   SecurityScheme |-> AsyncApi2_SecurityScheme,
   Message |-> AsyncApi2_Message,
   MessageBindings |-> AsyncApi2_MessageBindings,
   OperationBindings |-> AsyncApi2_OperationBindings,
   OperationTrait |-> AsyncApi2_OperationTrait,
   OperationTraitList |-> listOf("OperationTrait", {}),
   MessageTrait |-> AsyncApi2_MessageTrait,
   MessageTraitList |-> listOf("MessageTrait", {}),
   MessageExampleList |-> listOf("MessageExample", {}),
   CorrelationId |-> AsyncApi2_CorrelationId,
   Dependencies |-> JsonSchemaDraft7Shared.Dependencies]
  @@ AsyncApi2Bindings
-----------------------------------------------------------------------------
(* Calling a function of the tables by its name.                            *)

ApplyResolver(fn, v, k) ==
  CASE fn = "Oas3_Paths_additionalProperties" -> Oas3_Paths_additionalProperties(v, k)
    [] fn = "Oas3_WebhooksMap_additionalProperties" -> Oas3_WebhooksMap_additionalProperties(v, k)
    [] fn = "Oas3_Responses_additionalProperties" -> Oas3_Responses_additionalProperties(v, k)
    [] fn = "Oas3_Schema_items" -> Oas3_Schema_items(v, k)
    [] fn = "Oas3_Schema_additionalProperties" -> Oas3_Schema_additionalProperties(v, k)
    [] fn = "Oas3_DiscriminatorMapping_additionalProperties" -> Oas3_DiscriminatorMapping_additionalProperties(v, k)
    [] fn = "Oas3_AuthorizationCode_x_usePkce" -> Oas3_AuthorizationCode_x_usePkce(v, k)
    [] fn = "Part000_Paths_additionalProperties" -> Part000_Paths_additionalProperties(v, k)
    [] fn = "Part000_WebhooksMap_additionalProperties" -> Part000_WebhooksMap_additionalProperties(v, k)
    [] fn = "Part000_Responses_additionalProperties" -> Part000_Responses_additionalProperties(v, k)
    [] fn = "Part000_Schema_items" -> Part000_Schema_items(v, k)
    [] fn = "Part000_Schema_additionalProperties" -> Part000_Schema_additionalProperties(v, k)
    [] fn = "Part000_DiscriminatorMapping_additionalProperties" -> Part000_DiscriminatorMapping_additionalProperties(v, k)
    [] fn = "Part000_AuthorizationCode_x_usePkce" -> Part000_AuthorizationCode_x_usePkce(v, k)
    [] fn = "AsyncApi2_ServerMap_additionalProperties" -> AsyncApi2_ServerMap_additionalProperties(v, k)

ApplyKeysFn(fn, v) ==
  CASE fn = "Oas3_SecurityScheme_required" -> Oas3_SecurityScheme_required(v)
    [] fn = "Oas3_SecurityScheme_allowed" -> Oas3_SecurityScheme_allowed(v)
    [] fn = "Part000_SecurityScheme_required" -> Part000_SecurityScheme_required(v)
    [] fn = "Part000_SecurityScheme_allowed" -> Part000_SecurityScheme_allowed(v)
    [] fn = "AsyncApi2_ChannelBindings_allowed" -> AsyncApi2_ChannelBindings_allowed(v)
    [] fn = "AsyncApi2_ServerBindings_allowed" -> AsyncApi2_ServerBindings_allowed(v)
    [] fn = "AsyncApi2_MessageBindings_allowed" -> AsyncApi2_MessageBindings_allowed(v)
    [] fn = "AsyncApi2_OperationBindings_allowed" -> AsyncApi2_OperationBindings_allowed(v)
    [] fn = "AsyncApi2_SecurityScheme_required" -> AsyncApi2_SecurityScheme_required(v)
    [] fn = "AsyncApi2_SecurityScheme_allowed" -> AsyncApi2_SecurityScheme_allowed(v)
-----------------------------------------------------------------------------
(* Every property name and key the tables write, spelled out.                *)

TableNames ==
  {<<"$", "r", "e", "f">>, <<"a", "c", "k">>,
   <<"a", "d", "d", "i", "t", "i", "o", "n", "a", "l", "P", "r", "o", "p", "e", "r", "t", "i", "e", "s">>,
   <<"a", "l", "l", "O", "f">>,
   <<"a", "l", "l", "o", "w", "E", "m", "p", "t", "y", "V", "a", "l", "u", "e">>,
   <<"a", "l", "l", "o", "w", "R", "e", "s", "e", "r", "v", "e", "d">>,
   <<"a", "l", "t", "T", "e", "x", "t">>, <<"a", "m", "q", "p">>, <<"a", "m", "q", "p", "1">>,
   <<"a", "n", "y", "O", "f">>, <<"a", "n", "y", "p", "o", "i", "n", "t", "m", "q">>,
   <<"a", "p", "i", "K", "e", "y">>, <<"a", "s", "y", "n", "c", "a", "p", "i">>,
   <<"a", "t", "t", "r", "i", "b", "u", "t", "e">>,
   <<"a", "u", "t", "h", "o", "r", "i", "z", "a", "t", "i", "o", "n", "C", "o", "d", "e">>,
   <<"a", "u", "t", "h", "o", "r", "i", "z", "a", "t", "i", "o", "n", "U", "r", "l">>,
   <<"b", "a", "c", "k", "g", "r", "o", "u", "n", "d", "C", "o", "l", "o", "r">>,
   <<"b", "c", "c">>, <<"b", "e", "a", "r", "e", "r", "F", "o", "r", "m", "a", "t">>,
   <<"b", "i", "n", "d", "i", "n", "g", "V", "e", "r", "s", "i", "o", "n">>,
   <<"b", "i", "n", "d", "i", "n", "g", "s">>, <<"c", "a", "l", "l", "b", "a", "c", "k", "s">>,
   <<"c", "c">>, <<"c", "h", "a", "n", "n", "e", "l", "B", "i", "n", "d", "i", "n", "g", "s">>,
   <<"c", "h", "a", "n", "n", "e", "l", "s">>,
   <<"c", "l", "e", "a", "n", "S", "e", "s", "s", "i", "o", "n">>,
   <<"c", "l", "e", "a", "n", "u", "p", ".", "p", "o", "l", "i", "c", "y">>,
   <<"c", "l", "i", "e", "n", "t", "C", "r", "e", "d", "e", "n", "t", "i", "a", "l", "s">>,
   <<"c", "l", "i", "e", "n", "t", "I", "d">>,
   <<"c", "o", "m", "p", "o", "n", "e", "n", "t", "s">>, <<"c", "o", "n", "t", "a", "c", "t">>,
   <<"c", "o", "n", "t", "e", "n", "t">>,
   <<"c", "o", "n", "t", "e", "n", "t", "E", "n", "c", "o", "d", "i", "n", "g">>,
   <<"c", "o", "n", "t", "e", "n", "t", "T", "y", "p", "e">>,
   <<"c", "o", "r", "r", "e", "l", "a", "t", "i", "o", "n", "I", "d">>,
   <<"c", "o", "r", "r", "e", "l", "a", "t", "i", "o", "n", "I", "d", "s">>,
   <<"d", "e", "f", "a", "u", "l", "t">>,
   <<"d", "e", "f", "a", "u", "l", "t", "C", "o", "n", "t", "e", "n", "t", "T", "y", "p", "e">>,
   <<"d", "e", "l", "e", "t", "e">>,
   <<"d", "e", "l", "e", "t", "e", ".", "r", "e", "t", "e", "n", "t", "i", "o", "n", ".", "m", "s">>,
   <<"d", "e", "l", "i", "v", "e", "r", "y", "M", "o", "d", "e">>,
   <<"d", "e", "p", "r", "e", "c", "a", "t", "e", "d">>,
   <<"d", "e", "s", "c", "r", "i", "p", "t", "i", "o", "n">>,
   <<"d", "e", "s", "t", "i", "n", "a", "t", "i", "o", "n">>,
   <<"d", "e", "s", "t", "i", "n", "a", "t", "i", "o", "n", "T", "y", "p", "e">>,
   <<"d", "e", "s", "t", "i", "n", "a", "t", "i", "o", "n", "s">>,
   <<"d", "i", "s", "a", "b", "l", "e", "M", "a", "n", "u", "a", "l", "C", "o", "n", "f", "i", "g", "u", "r", "a", "t", "i", "o", "n">>,
   <<"d", "i", "s", "c", "r", "i", "m", "i", "n", "a", "t", "o", "r">>,
   <<"e", "m", "a", "i", "l">>, <<"e", "n", "c", "o", "d", "i", "n", "g">>,
   <<"e", "n", "u", "m">>, <<"e", "x", "a", "m", "p", "l", "e">>,
   <<"e", "x", "a", "m", "p", "l", "e", "s">>,
   <<"e", "x", "c", "l", "u", "s", "i", "v", "e", "M", "a", "x", "i", "m", "u", "m">>,
   <<"e", "x", "c", "l", "u", "s", "i", "v", "e", "M", "i", "n", "i", "m", "u", "m">>,
   <<"e", "x", "p", "i", "r", "a", "t", "i", "o", "n">>, <<"e", "x", "p", "l", "o", "d", "e">>,
   <<"e", "x", "t", "e", "r", "n", "a", "l", "D", "o", "c", "s">>,
   <<"e", "x", "t", "e", "r", "n", "a", "l", "V", "a", "l", "u", "e">>,
   <<"f", "l", "o", "w", "s">>, <<"f", "o", "r", "m", "a", "t">>, <<"g", "e", "t">>,
   <<"g", "o", "o", "g", "l", "e", "p", "u", "b", "s", "u", "b">>,
   <<"g", "r", "o", "u", "p", "I", "d">>, <<"h", "e", "a", "d">>,
   <<"h", "e", "a", "d", "e", "r", "s">>,
   <<"h", "i", "d", "e", "C", "l", "i", "e", "n", "t", "S", "e", "c", "r", "e", "t", "I", "n", "p", "u", "t">>,
   <<"h", "r", "e", "f">>, <<"h", "t", "t", "p">>,
   <<"h", "t", "t", "p", "A", "p", "i", "K", "e", "y">>, <<"i", "b", "m", "m", "q">>,
   <<"i", "d">>, <<"i", "m", "p", "l", "i", "c", "i", "t">>, <<"i", "n">>,
   <<"i", "n", "f", "o">>, <<"i", "t", "e", "m", "s">>, <<"j", "m", "s">>,
   <<"k", "a", "f", "k", "a">>, <<"k", "e", "e", "p", "A", "l", "i", "v", "e">>,
   <<"k", "e", "y">>, <<"l", "a", "b", "e", "l">>, <<"l", "a", "n", "g">>,
   <<"l", "a", "s", "t", "W", "i", "l", "l">>, <<"l", "i", "c", "e", "n", "s", "e">>,
   <<"l", "i", "n", "k", "s">>, <<"l", "o", "c", "a", "t", "i", "o", "n">>,
   <<"m", "a", "n", "d", "a", "t", "o", "r", "y">>, <<"m", "a", "p", "p", "i", "n", "g">>,
   <<"m", "a", "x", ".", "m", "e", "s", "s", "a", "g", "e", ".", "b", "y", "t", "e", "s">>,
   <<"m", "a", "x", "I", "t", "e", "m", "s">>, <<"m", "a", "x", "L", "e", "n", "g", "t", "h">>,
   <<"m", "a", "x", "P", "r", "o", "p", "e", "r", "t", "i", "e", "s">>,
   <<"m", "a", "x", "i", "m", "u", "m">>, <<"m", "e", "r", "c", "u", "r", "e">>,
   <<"m", "e", "s", "s", "a", "g", "e">>,
   <<"m", "e", "s", "s", "a", "g", "e", "B", "i", "n", "d", "i", "n", "g", "s">>,
   <<"m", "e", "s", "s", "a", "g", "e", "I", "d">>,
   <<"m", "e", "s", "s", "a", "g", "e", "T", "r", "a", "i", "t", "s">>,
   <<"m", "e", "s", "s", "a", "g", "e", "T", "y", "p", "e">>,
   <<"m", "e", "s", "s", "a", "g", "e", "s">>, <<"m", "e", "t", "h", "o", "d">>,
   <<"m", "i", "n", "I", "t", "e", "m", "s">>, <<"m", "i", "n", "L", "e", "n", "g", "t", "h">>,
   <<"m", "i", "n", "P", "r", "o", "p", "e", "r", "t", "i", "e", "s">>,
   <<"m", "i", "n", "i", "m", "u", "m">>, <<"m", "q", "t", "t">>, <<"m", "q", "t", "t", "5">>,
   <<"m", "s", "g", "V", "p", "n">>, <<"m", "u", "l", "t", "i", "p", "l", "e", "O", "f">>,
   <<"n", "a", "m", "e">>, <<"n", "a", "m", "e", "s", "p", "a", "c", "e">>,
   <<"n", "a", "t", "s">>, <<"n", "o", "t">>, <<"n", "u", "l", "l", "a", "b", "l", "e">>,
   <<"o", "a", "u", "t", "h", "2">>, <<"o", "n", "e", "O", "f">>,
   <<"o", "p", "e", "n", "I", "d", "C", "o", "n", "n", "e", "c", "t">>,
   <<"o", "p", "e", "n", "I", "d", "C", "o", "n", "n", "e", "c", "t", "U", "r", "l">>,
   <<"o", "p", "e", "n", "a", "p", "i">>,
   <<"o", "p", "e", "r", "a", "t", "i", "o", "n", "B", "i", "n", "d", "i", "n", "g", "s">>,
   <<"o", "p", "e", "r", "a", "t", "i", "o", "n", "I", "d">>,
   <<"o", "p", "e", "r", "a", "t", "i", "o", "n", "R", "e", "f">>,
   <<"o", "p", "e", "r", "a", "t", "i", "o", "n", "T", "r", "a", "i", "t", "s">>,
   <<"o", "p", "t", "i", "o", "n", "s">>, <<"p", "a", "r", "a", "m", "e", "t", "e", "r", "s">>,
   <<"p", "a", "r", "t", "i", "t", "i", "o", "n", "s">>,
   <<"p", "a", "s", "s", "w", "o", "r", "d">>, <<"p", "a", "t", "c", "h">>,
   <<"p", "a", "t", "h", "s">>, <<"p", "a", "t", "t", "e", "r", "n">>,
   <<"p", "a", "y", "l", "o", "a", "d">>, <<"p", "o", "s", "t">>,
   <<"p", "r", "e", "f", "i", "x">>, <<"p", "r", "i", "o", "r", "i", "t", "y">>,
   <<"p", "r", "o", "p", "e", "r", "t", "i", "e", "s">>,
   <<"p", "r", "o", "p", "e", "r", "t", "y", "N", "a", "m", "e">>,
   <<"p", "r", "o", "t", "o", "c", "o", "l">>,
   <<"p", "r", "o", "t", "o", "c", "o", "l", "V", "e", "r", "s", "i", "o", "n">>,
   <<"p", "u", "b", "l", "i", "s", "h">>, <<"p", "u", "l", "s", "a", "r">>, <<"p", "u", "t">>,
   <<"q", "o", "s">>, <<"q", "u", "e", "r", "y">>, <<"q", "u", "e", "u", "e">>,
   <<"q", "u", "e", "u", "e", ".", "a", "c", "c", "e", "s", "s", "T", "y", "p", "e">>,
   <<"q", "u", "e", "u", "e", ".", "m", "a", "x", "M", "s", "g", "S", "p", "o", "o", "l", "S", "i", "z", "e">>,
   <<"q", "u", "e", "u", "e", ".", "m", "a", "x", "T", "t", "l">>,
   <<"q", "u", "e", "u", "e", ".", "n", "a", "m", "e">>,
   <<"q", "u", "e", "u", "e", ".", "t", "o", "p", "i", "c", "S", "u", "b", "s", "c", "r", "i", "p", "t", "i", "o", "n", "s">>,
   <<"r", "e", "a", "d", "O", "n", "l", "y">>, <<"r", "e", "d", "i", "s">>,
   <<"r", "e", "f", "r", "e", "s", "h", "U", "r", "l">>,
   <<"r", "e", "p", "l", "i", "c", "a", "s">>, <<"r", "e", "p", "l", "y", "T", "o">>,
   <<"r", "e", "q", "u", "e", "s", "t", "B", "o", "d", "i", "e", "s">>,
   <<"r", "e", "q", "u", "e", "s", "t", "B", "o", "d", "y">>,
   <<"r", "e", "q", "u", "i", "r", "e", "d">>, <<"r", "e", "s", "p", "o", "n", "s", "e", "s">>,
   <<"r", "e", "t", "a", "i", "n">>,
   <<"r", "e", "t", "e", "n", "t", "i", "o", "n", ".", "b", "y", "t", "e", "s">>,
   <<"r", "e", "t", "e", "n", "t", "i", "o", "n", ".", "m", "s">>,
   <<"s", "c", "h", "e", "m", "a">>,
   <<"s", "c", "h", "e", "m", "a", "F", "o", "r", "m", "a", "t">>,
   <<"s", "c", "h", "e", "m", "a", "I", "d", "L", "o", "c", "a", "t", "i", "o", "n">>,
   <<"s", "c", "h", "e", "m", "a", "I", "d", "P", "a", "y", "l", "o", "a", "d", "E", "n", "c", "o", "d", "i", "n", "g">>,
   <<"s", "c", "h", "e", "m", "a", "L", "o", "o", "k", "u", "p", "S", "t", "r", "a", "t", "e", "g", "y">>,
   <<"s", "c", "h", "e", "m", "a", "s">>, <<"s", "c", "h", "e", "m", "e">>,
   <<"s", "c", "o", "p", "e", "s">>, <<"s", "e", "c", "u", "r", "i", "t", "y">>,
   <<"s", "e", "c", "u", "r", "i", "t", "y", "S", "c", "h", "e", "m", "e", "s">>,
   <<"s", "e", "r", "v", "e", "r">>,
   <<"s", "e", "r", "v", "e", "r", "B", "i", "n", "d", "i", "n", "g", "s">>,
   <<"s", "e", "r", "v", "e", "r", "V", "a", "r", "i", "a", "b", "l", "e", "s">>,
   <<"s", "e", "r", "v", "e", "r", "s">>, <<"s", "n", "s">>, <<"s", "o", "l", "a", "c", "e">>,
   <<"s", "o", "u", "r", "c", "e">>, <<"s", "q", "s">>, <<"s", "t", "o", "m", "p">>,
   <<"s", "t", "y", "l", "e">>, <<"s", "u", "b", "s", "c", "r", "i", "b", "e">>,
   <<"s", "u", "m", "m", "a", "r", "y">>, <<"t", "a", "g", "s">>,
   <<"t", "e", "r", "m", "s", "O", "f", "S", "e", "r", "v", "i", "c", "e">>,
   <<"t", "i", "m", "e", "s", "t", "a", "m", "p">>, <<"t", "i", "t", "l", "e">>,
   <<"t", "o", "k", "e", "n", "U", "r", "l">>, <<"t", "o", "p", "i", "c">>,
   <<"t", "o", "p", "i", "c", ".", "t", "o", "p", "i", "c", "S", "u", "b", "s", "c", "r", "i", "p", "t", "i", "o", "n", "s">>,
   <<"t", "o", "p", "i", "c", "C", "o", "n", "f", "i", "g", "u", "r", "a", "t", "i", "o", "n">>,
   <<"t", "r", "a", "c", "e">>, <<"t", "r", "a", "i", "t", "s">>, <<"t", "y", "p", "e">>,
   <<"u", "n", "i", "q", "u", "e", "I", "t", "e", "m", "s">>, <<"u", "r", "l">>,
   <<"u", "s", "e", "r", "I", "d">>, <<"v", "a", "l", "u", "e">>,
   <<"v", "a", "r", "i", "a", "b", "l", "e", "s">>, <<"v", "e", "r", "s", "i", "o", "n">>,
   <<"w", "r", "a", "p", "p", "e", "d">>, <<"w", "r", "i", "t", "e", "O", "n", "l", "y">>,
   <<"w", "s">>,
   <<"x", "-", "a", "d", "d", "i", "t", "i", "o", "n", "a", "l", "P", "r", "o", "p", "e", "r", "t", "i", "e", "s", "N", "a", "m", "e">>,
   <<"x", "-", "c", "o", "d", "e", "-", "s", "a", "m", "p", "l", "e", "s">>,
   <<"x", "-", "c", "o", "d", "e", "S", "a", "m", "p", "l", "e", "s">>,
   <<"x", "-", "d", "e", "f", "a", "u", "l", "t", "C", "l", "i", "e", "n", "t", "I", "d">>,
   <<"x", "-", "d", "i", "s", "p", "l", "a", "y", "N", "a", "m", "e">>,
   <<"x", "-", "e", "x", "p", "l", "i", "c", "i", "t", "M", "a", "p", "p", "i", "n", "g", "O", "n", "l", "y">>,
   <<"x", "-", "h", "i", "d", "e", "T", "r", "y", "I", "t", "P", "a", "n", "e", "l">>,
   <<"x", "-", "i", "g", "n", "o", "r", "e", "d", "H", "e", "a", "d", "e", "r", "P", "a", "r", "a", "m", "e", "t", "e", "r", "s">>,
   <<"x", "-", "l", "o", "g", "o">>, <<"x", "-", "s", "u", "m", "m", "a", "r", "y">>,
   <<"x", "-", "t", "a", "g", "G", "r", "o", "u", "p", "s">>, <<"x", "-", "t", "a", "g", "s">>,
   <<"x", "-", "t", "r", "a", "i", "t", "T", "a", "g">>,
   <<"x", "-", "u", "s", "e", "P", "k", "c", "e">>,
   <<"x", "-", "w", "e", "b", "h", "o", "o", "k", "s">>, <<"x", "m", "l">>}

-----------------------------------------------------------------------------
(* Resolution and validation of one node against its node type.            *)

\* a rule as it is used: a function is called with (value, key), and a function
\* returning undefined rejects the key
ResolveRule(rule, v, k) ==
  IF rule.kind = "Resolver"
  THEN LET r == ApplyResolver(rule.fn, v, k)
       IN  IF r = Undefined THEN Reject ELSE r
  ELSE rule

\* the key starts with the node type's extensionsPrefix
IsExtensionKey(D, k) ==
  /\ D.extensionsPrefix # Undefined
  /\ StartsWith(k, D.extensionsPrefix)

\* resolveChild(descriptor, key, value): properties, then extensionsPrefix, then
\* additionalProperties, then rejection
resolveChild(D, k, v) ==
  IF Str(k) \in DOMAIN D.properties
  THEN ResolveRule(D.properties[Str(k)], v, k)
  ELSE IF IsExtensionKey(D, k)
  THEN Extension
  ELSE IF D.additionalProperties # Undefined
  THEN ResolveRule(D.additionalProperties, v, k)
  ELSE Reject

\* the rule resolveChild consults for a key, Undefined when it consults none
RuleFor(D, k) ==
  IF Str(k) \in DOMAIN D.properties
  THEN D.properties[Str(k)]
  ELSE IF IsExtensionKey(D, k)
  THEN Undefined
  ELSE D.additionalProperties

\* the node types a call of resolveChild constructs: a function of the tables that
\* returns a node type builds it at each call (`return listOf('Schema')`), a rule
\* that is a node type hands out the one it holds
Constructed(D, k, v) ==
  LET rule == RuleFor(D, k)
  IN  IF rule.kind = "Resolver" /\ ApplyResolver(rule.fn, v, k).kind = "Node"
      THEN {ApplyResolver(rule.fn, v, k).node}
      ELSE {}

\* a `required` or `allowed` field as a set of keys for this node value
KeysOf(field, v) ==
  CASE field.kind = "Keys" -> Range(field.keys)
    [] field.kind = "KeysFn" -> Range(ApplyKeysFn(field.fn, v))
    [] OTHER -> {}

\* the names of the node's own keys
OwnNames(v) == {Str(k) : k \in OwnKeys(v)}

\* checkRequired(descriptor, value): the required keys the node does not have
checkRequired(D, v) == KeysOf(D.required, v) \ OwnNames(v)

\* checkDisjunctiveRequired(descriptor, value): requiredOneOf is set and the node has
\* none of its keys
checkDisjunctiveRequired(D, v) ==
  /\ D.requiredOneOf # Undefined
  /\ KeysOf(D.requiredOneOf, v) \cap OwnNames(v) = {}

\* checkAllowed(descriptor, value): the node's keys outside the allow-list, extension
\* keys apart
checkAllowed(D, v) ==
  IF D.allowed = Undefined
  THEN {}
  ELSE {Str(k) : k \in {x \in OwnKeys(v) :
                          /\ Str(x) \notin KeysOf(D.allowed, v)
                          /\ ~IsExtensionKey(D, x)}}

-----------------------------------------------------------------------------
(* The registries and the inputs of the calls.                             *)

Dialects == {"oas3", "part000", "asyncapi2"}

\* the registry of a dialect
Registry(d) ==
  CASE d = "oas3" -> Oas3Types
    [] d = "part000" -> Part000_Oas3Types
    [] d = "asyncapi2" -> AsyncApi2Types

\* registry.lookup(name)
lookup(d, name) == Registry(d)[name]

\* the node types a table writes itself (the imported ones are not in the sources)
NodeTypesOf(d) == {t \in DOMAIN Registry(d) : Registry(d)[t].kind = "NodeType"}

BindingsTypes == {"ChannelBindings", "ServerBindings", "MessageBindings", "OperationBindings"}

\* the longest generated key
MaxKeyLen == 2

\* the most keys a checked node has
MaxNodeKeys == 3

Alphabet == {"/", "x", "-"}

GeneratedKeys == UNION {[1..n -> Alphabet] : n \in 0..MaxKeyLen}

NamedKeys ==
  {<<"d", "e", "f", "a", "u", "l", "t">>, <<"x", "-", "f", "o", "o">>,
   <<"x", "-", "d", "e", "f", "a", "u", "l", "t", "C", "l", "i", "e", "n", "t", "I", "d">>,
   <<"2", "0", "0">>, <<"2", "X", "X">>, <<"4", "x", "x">>, <<"2", "X", "0">>,
   <<"X", "0", "0">>, <<"2", "0">>, <<"2", "0", "0", "0">>,
   <<"/", "p", "e", "t", "s">>, <<"p", "e", "t", "s">>, <<"p", "/", "q">>,
   <<"b", "o", "g", "u", "s">>, <<"X", "-", "f", "o", "o">>, <<"x", "_", "f", "o", "o">>,
   <<"m", "y", "-", "s", "e", "r", "v", "e", "r", "_", "1">>,
   <<"m", "y", ".", "s", "e", "r", "v", "e", "r">>, <<"a", " ", "b">>, <<"0">>,
   <<"x", "-", "l", "o", "g", "o">>, <<"x", "-", "w", "e", "b", "h", "o", "o", "k", "s">>,
   <<"x", "-", "t", "a", "g", "G", "r", "o", "u", "p", "s">>,
   <<"x", "-", "c", "o", "d", "e", "S", "a", "m", "p", "l", "e", "s">>}

KeyPool == TableNames \cup NamedKeys \cup GeneratedKeys

\* the property name each key of the pool spells
NameOf == [k \in KeyPool |-> Str(k)]

\* the keys a node type is asked about: its own properties and the probes
KeysFor(D) ==
  {k \in TableNames : NameOf[k] \in DOMAIN D.properties} \cup NamedKeys \cup GeneratedKeys

\* the child values a key is resolved with
ChildValues ==
  {VNull, VBoolean(TRUE), VBoolean(FALSE), VNumber(1), VArray, VObject({}, VUndefined),
   VString(<<"D", "o", "g">>), VString(<<"#", "/", "D", "o", "g">>)}

\* the values of a node's `type` field
TypeValues ==
  {VString(<<"a", "p", "i", "K", "e", "y">>), VString(<<"h", "t", "t", "p">>),
   VString(<<"o", "a", "u", "t", "h", "2">>),
   VString(<<"o", "p", "e", "n", "I", "d", "C", "o", "n", "n", "e", "c", "t">>),
   VString(<<"h", "t", "t", "p", "A", "p", "i", "K", "e", "y">>),
   VString(<<"u", "s", "e", "r", "P", "a", "s", "s", "w", "o", "r", "d">>),
   VString(<<"b", "o", "g", "u", "s">>), VNumber(1), VNull}

TypeKey == <<"t", "y", "p", "e">>

NodeProbes == {<<"x", "-", "f", "o", "o">>, <<"b", "o", "g", "u", "s">>}

\* every key a `required` or `allowed` field can name, whatever the node's type is
NamedBy(field) == UNION {KeysOf(field, VObject({TypeKey}, t)) : t \in TypeValues}

\* the names a check of D reads: those of its own field, and for requiredOneOf the
\* required ones too, for allowed the listed properties too
NamesFor(D, check) ==
  CASE check = "checkRequired" -> NamedBy(D.required)
    [] check = "checkDisjunctiveRequired" -> NamedBy(D.requiredOneOf) \cup NamedBy(D.required)
    [] check = "checkAllowed" ->
         IF D.allowed = Undefined THEN {} ELSE NamedBy(D.allowed) \cup DOMAIN D.properties

\* the keys the nodes of a check are built from
NodeKeysFor(D, check) == {k \in TableNames : NameOf[k] \in NamesFor(D, check)} \cup NodeProbes

\* the subsets of S of at most n elements
RECURSIVE SubsetsUpTo(_, _)
SubsetsUpTo(S, n) ==
  IF n = 0
  THEN {{}}
  ELSE LET smaller == SubsetsUpTo(S, n - 1)
       IN  smaller \cup {T \cup {x} : T \in smaller, x \in S}

\* the nodes a node type is checked against: objects of at most MaxNodeKeys keys
NodeValues(D, check) ==
  LET keySets == SubsetsUpTo(NodeKeysFor(D, check), MaxNodeKeys)
  IN  {VObject(S, VUndefined) : S \in {S \in keySets : TypeKey \notin S}}
      \cup {VObject(S, t) : S \in {S \in keySets : TypeKey \in S}, t \in TypeValues}

-----------------------------------------------------------------------------
(* The state machine: the module initialization of asyncapi2.ts, then the  *)
(* calls of a traversal, one at a time.                                    *)

NoKey == <<>>

\* no document is being traversed
NotStarted == [phase |-> "none"]

\* the traversals that share the registries
Workers == {1, 2}

\* a traversal between two calls
IdleWorker == [op |-> "idle"]

\* the dialects of the OpenAPI 3 tables: each of the two modules has a
\* responseCodeRegexp object of its own
Oas3Dialects == {"oas3", "part000"}

Init ==
  /\ patched = 0
  /\ bindingProps = [b \in BindingsTypes |-> <<>>]
  /\ exported = "none"
  /\ op = "idle"
  /\ dialect = "none"
  /\ callType = "none"
  /\ callKey = NoKey
  /\ callValue = VUndefined
  /\ result = Undefined
  /\ built = {}
  /\ log = <<>>
  /\ workers = [w \in Workers |-> IdleWorker]
  /\ lastIndex = [m \in Oas3Dialects |-> 0]
  /\ traversal = NotStarted

\* the next statement `X.properties.k = Y;`
Patch ==
  /\ exported = "none"
  /\ patched < Len(AsyncApi2_Assignments)
  /\ LET a == AsyncApi2_Assignments[patched + 1]
     IN  bindingProps' = [bindingProps EXCEPT ![a.target] = (a.key :> a.node) @@ @]
  /\ patched' = patched + 1
  /\ UNCHANGED <<exported, op, dialect, callType, callKey, callValue, result>>
  /\ UNCHANGED <<built, log, workers, lastIndex, traversal>>

\* AsyncApi2Bindings as it would be if it were built before the assignments are done
ExportBindings_Early ==
  /\ exported = "none"
  /\ exported' = "bindings"
  /\ UNCHANGED <<patched, bindingProps, op, dialect, callType, callKey, callValue, result>>
  /\ UNCHANGED <<built, log, workers, lastIndex, traversal>>

\* `export const AsyncApi2Bindings = {...}`, after the last assignment
ExportBindings ==
  /\ exported = "none"
  /\ patched = Len(AsyncApi2_Assignments)
  /\ exported' = "bindings"
  /\ UNCHANGED <<patched, bindingProps, op, dialect, callType, callKey, callValue, result>>
  /\ UNCHANGED <<built, log, workers, lastIndex, traversal>>

\* `export const AsyncApi2Types = {...}`: the module is initialized
ExportTypes ==
  /\ exported = "bindings"
  /\ exported' = "types"
  /\ UNCHANGED <<patched, bindingProps, op, dialect, callType, callKey, callValue, result>>
  /\ UNCHANGED <<built, log, workers, lastIndex, traversal>>

Ready == exported = "types" /\ op = "idle"

ResolveChild(d, t, k, v) ==
  /\ Ready
  /\ op' = "resolveChild"
  /\ dialect' = d
  /\ callType' = t
  /\ callKey' = k
  /\ callValue' = v
  /\ result' = resolveChild(lookup(d, t), k, v)
  /\ built' = Constructed(lookup(d, t), k, v)
  /\ UNCHANGED <<patched, bindingProps, exported, log, workers, lastIndex, traversal>>

CheckRequired(d, t, v) ==
  /\ Ready
  /\ op' = "checkRequired"
  /\ dialect' = d
  /\ callType' = t
  /\ callKey' = NoKey
  /\ callValue' = v
  /\ result' = checkRequired(lookup(d, t), v)
  /\ built' = {}
  /\ UNCHANGED <<patched, bindingProps, exported, log, workers, lastIndex, traversal>>

CheckDisjunctiveRequired(d, t, v) ==
  /\ Ready
  /\ op' = "checkDisjunctiveRequired"
  /\ dialect' = d
  /\ callType' = t
  /\ callKey' = NoKey
  /\ callValue' = v
  /\ result' = checkDisjunctiveRequired(lookup(d, t), v)
  /\ built' = {}
  /\ UNCHANGED <<patched, bindingProps, exported, log, workers, lastIndex, traversal>>

CheckAllowed(d, t, v) ==
  /\ Ready
  /\ op' = "checkAllowed"
  /\ dialect' = d
  /\ callType' = t
  /\ callKey' = NoKey
  /\ callValue' = v
  /\ result' = checkAllowed(lookup(d, t), v)
  /\ built' = {}
  /\ UNCHANGED <<patched, bindingProps, exported, log, workers, lastIndex, traversal>>

\* the call returns to the traversal
Return ==
  /\ op # "idle"
  /\ op' = "idle"
  /\ dialect' = "none"
  /\ callType' = "none"
  /\ callKey' = NoKey
  /\ callValue' = VUndefined
  /\ result' = Undefined
  /\ built' = {}
  /\ UNCHANGED <<patched, bindingProps, exported, log, workers, lastIndex, traversal>>

\* one call of resolveChild of the traversal
Resolve ==
  /\ Ready
  /\ \E d \in Dialects : \E t \in NodeTypesOf(d) :
       \E k \in KeysFor(lookup(d, t)) : \E v \in ChildValues : ResolveChild(d, t, k, v)

\* one call of a check of the traversal's node
Check ==
  /\ Ready
  /\ \E d \in Dialects : \E t \in NodeTypesOf(d) :
       \/ \E v \in NodeValues(lookup(d, t), "checkRequired") : CheckRequired(d, t, v)
       \/ \E v \in NodeValues(lookup(d, t), "checkDisjunctiveRequired") :
            CheckDisjunctiveRequired(d, t, v)
       \/ \E v \in NodeValues(lookup(d, t), "checkAllowed") : CheckAllowed(d, t, v)

Next ==
  \/ Patch
  \/ ExportBindings
  \/ ExportTypes
  \/ Resolve
  \/ Check
  \/ Return

Spec == Init /\ [][Next]_vars

-----------------------------------------------------------------------------
(* SpecExtend: the statement `X.properties.k = Y;` of asyncapi2.ts run for *)
(* any target, key and node type, any number of times and in any order,    *)
(* before the exports.                                                     *)

\* the most statements run
MaxStatements == 3

ExtendTargets == {"ChannelBindings", "ServerBindings"}

ExtendKeys == {"http", "ws"}

ExtendNodes == {"HttpChannelBinding", "WsChannelBinding"}

\* `X.properties.k = Y;` as it would be if a key could be bound once only and a
\* second statement for it threw, which ends the startup
Extend_Strict(b, k, n) ==
  /\ exported = "none"
  /\ Len(log) < MaxStatements
  /\ IF k \in DOMAIN bindingProps[b]
     THEN bindingProps' = bindingProps /\ exported' = "failed"
     ELSE bindingProps' = [bindingProps EXCEPT ![b] = (k :> n) @@ @] /\ exported' = "none"
  /\ log' = Append(log, [target |-> b, key |-> k, node |-> n])
  /\ UNCHANGED <<patched, op, dialect, callType, callKey, callValue, result>>
  /\ UNCHANGED <<built, workers, lastIndex, traversal>>

\* one statement `X.properties.k = Y;`: a plain assignment to the property k
Extend(b, k, n) ==
  /\ exported = "none"
  /\ Len(log) < MaxStatements
  /\ bindingProps' = [bindingProps EXCEPT ![b] = (k :> n) @@ @]
  /\ log' = Append(log, [target |-> b, key |-> k, node |-> n])
  /\ UNCHANGED <<patched, exported, op, dialect, callType, callKey, callValue, result>>
  /\ UNCHANGED <<built, workers, lastIndex, traversal>>

ExtendAny ==
  \E b \in ExtendTargets : \E k \in ExtendKeys : \E n \in ExtendNodes : Extend(b, k, n)

\* `export const AsyncApi2Bindings = {...}`, after the statements that were run
ExportExtended ==
  /\ exported = "none"
  /\ exported' = "bindings"
  /\ UNCHANGED <<patched, bindingProps, op, dialect, callType, callKey, callValue, result>>
  /\ UNCHANGED <<built, log, workers, lastIndex, traversal>>

NextExtend ==
  \/ ExtendAny
  \/ ExportExtended
  \/ ExportTypes

SpecExtend == Init /\ [][NextExtend]_vars

-----------------------------------------------------------------------------
(* SpecConcurrent: two traversals calling into the registries of the       *)
(* initialized modules. A call is synchronous; the calls of the two        *)
(* traversals interleave.                                                  *)

\* the flags of the literal `/^[0-9][0-9Xx]{2}$/` as it would be written `/.../g`
Oas3_responseCodeRegexp_flags_Global == {"g"}

\* the flags of the literal `/^[0-9][0-9Xx]{2}$/` of oas3.ts: none
Oas3_responseCodeRegexp_flags == {}

\* the flags of the literal `/^[0-9][0-9Xx]{2}$/` of part_000: none
Part000_responseCodeRegexp_flags == {}

RegExpFlags(d) ==
  CASE d = "oas3" -> Oas3_responseCodeRegexp_flags
    [] d = "part000" -> Part000_responseCodeRegexp_flags

\* whether the pattern of the module's responseCodeRegexp matches the key
ResponseCodeMatches(d, k) ==
  CASE d = "oas3" -> Oas3_responseCodeRegexp(k)
    [] d = "part000" -> Part000_responseCodeRegexp(k)

\* RegExp.prototype.test of a pattern anchored at both ends, on an object that
\* lives as long as the module: with the g or y flag the search starts at
\* lastIndex and leaves lastIndex behind the match, or at 0 when it finds none;
\* without them lastIndex is neither read nor written
RegExpTest(flags, matches, from, len) ==
  IF flags \cap {"g", "y"} = {}
  THEN [found |-> matches, lastIndex |-> from]
  ELSE IF from = 0 /\ matches
  THEN [found |-> TRUE, lastIndex |-> len]
  ELSE [found |-> FALSE, lastIndex |-> 0]

\* the call runs responseCodeRegexp.test(key): Responses.additionalProperties
TestsResponseCode(c) ==
  /\ c.op = "resolveChild"
  /\ c.dialect \in Oas3Dialects
  /\ c.type = "Responses"
  /\ RuleFor(lookup(c.dialect, c.type), c.key).kind = "Resolver"

\* responseCodeRegexp.test(key) of the call, with the object's lastIndex as it is
TestOf(c, index) ==
  RegExpTest(RegExpFlags(c.dialect), ResponseCodeMatches(c.dialect, c.key),
             index[c.dialect], Len(c.key))

\* what the call returns alone, on modules that were just initialized
Alone(c) ==
  LET D == lookup(c.dialect, c.type)
  IN  CASE c.op = "resolveChild" -> resolveChild(D, c.key, c.value)
        [] c.op = "checkRequired" -> checkRequired(D, c.value)
        [] c.op = "checkAllowed" -> checkAllowed(D, c.value)

\* what the call returns with the shared objects as they are: a key the pattern
\* matches but test does not find makes Responses.additionalProperties return
\* undefined, which rejects the key
Outcome(c, index) ==
  IF TestsResponseCode(c) /\ ResponseCodeMatches(c.dialect, c.key) /\ ~TestOf(c, index).found
  THEN Reject
  ELSE Alone(c)

ApiKey == VString(<<"a", "p", "i", "K", "e", "y">>)

\* the calls the two traversals make
ConcurrentCalls ==
  {[op |-> "resolveChild", dialect |-> d, type |-> "Responses", key |-> k,
    value |-> VObject({}, VUndefined)] :
     d \in Oas3Dialects,
     k \in {<<"2", "0", "0">>, <<"d", "e", "f", "a", "u", "l", "t">>, <<"b", "o", "g", "u", "s">>}}
  \cup {[op |-> "resolveChild", dialect |-> "oas3", type |-> "Schema",
         key |-> <<"i", "t", "e", "m", "s">>, value |-> v] : v \in {VArray, VObject({}, VUndefined)}}
  \cup {[op |-> "resolveChild", dialect |-> "asyncapi2", type |-> "ChannelBindings",
         key |-> <<"k", "a", "f", "k", "a">>, value |-> VObject({}, VUndefined)]}
  \cup {[op |-> o, dialect |-> d, type |-> "SecurityScheme", key |-> NoKey, value |-> v] :
          o \in {"checkRequired", "checkAllowed"}, d \in {"oas3", "asyncapi2"},
          v \in {VObject({TypeKey}, ApiKey), VObject({TypeKey, <<"b", "o", "g", "u", "s">>}, ApiKey)}}

\* a traversal makes a call: the call runs to its end and the traversal holds
\* what it returned
Call(w, c) ==
  /\ exported = "types"
  /\ workers[w] = IdleWorker
  /\ workers' =
       [workers EXCEPT ![w] =
          [op |-> c.op, dialect |-> c.dialect, type |-> c.type, key |-> c.key,
           value |-> c.value, result |-> Outcome(c, lastIndex)]]
  /\ lastIndex' =
       IF TestsResponseCode(c)
       THEN [lastIndex EXCEPT ![c.dialect] = TestOf(c, lastIndex).lastIndex]
       ELSE lastIndex
  /\ UNCHANGED <<patched, bindingProps, exported, op, dialect, callType, callKey, callValue>>
  /\ UNCHANGED <<result, built, log, traversal>>

\* a traversal is done with what its call returned
Finish(w) ==
  /\ workers[w] # IdleWorker
  /\ workers' = [workers EXCEPT ![w] = IdleWorker]
  /\ UNCHANGED <<patched, bindingProps, exported, op, dialect, callType, callKey, callValue>>
  /\ UNCHANGED <<result, built, log, lastIndex, traversal>>

CallAny == \E w \in Workers : \E c \in ConcurrentCalls : Call(w, c)

FinishAny == \E w \in Workers : Finish(w)

NextConcurrent ==
  \/ Patch
  \/ ExportBindings
  \/ ExportTypes
  \/ CallAny
  \/ FinishAny

SpecConcurrent == Init /\ [][NextConcurrent]_vars

-----------------------------------------------------------------------------
(* SpecShapes: the functions written in the tables, each called with every *)
(* shape of value and every key, whatever node type holds the function.    *)

\* a call that ended with a TypeError instead of returning
Thrown == [kind |-> "TypeError"]

\* reading a field or a method of a value throws a TypeError when the value is
\* null or undefined, unless the access is `?.`
ReadThrows(v, optional) == ~optional /\ v.kind \in {"null", "undefined"}

\* `switch (value?.type)` as it would be written `switch (value.type)`
AsyncApi2_SecurityScheme_optionalChaining_Plain == FALSE

\* `switch (value?.type)` of SecurityScheme.required and allowed, oas3.ts
Oas3_SecurityScheme_optionalChaining == TRUE

\* `switch (value?.type)` of SecurityScheme.required and allowed, part_000
Part000_SecurityScheme_optionalChaining == TRUE

\* `switch (value?.type)` of SecurityScheme.required and allowed, asyncapi2.ts
AsyncApi2_SecurityScheme_optionalChaining == TRUE

ResolverNames ==
  {"Oas3_Paths_additionalProperties", "Oas3_WebhooksMap_additionalProperties",
   "Oas3_Responses_additionalProperties", "Oas3_Schema_items",
   "Oas3_Schema_additionalProperties", "Oas3_AuthorizationCode_x_usePkce",
   "Part000_Paths_additionalProperties", "Part000_WebhooksMap_additionalProperties",
   "Part000_Responses_additionalProperties", "Part000_Schema_items",
   "Part000_Schema_additionalProperties", "Part000_AuthorizationCode_x_usePkce",
   "AsyncApi2_ServerMap_additionalProperties"}

KeysFnNames ==
  {"Oas3_SecurityScheme_required", "Oas3_SecurityScheme_allowed",
   "Part000_SecurityScheme_required", "Part000_SecurityScheme_allowed",
   "AsyncApi2_SecurityScheme_required", "AsyncApi2_SecurityScheme_allowed",
   "AsyncApi2_ChannelBindings_allowed", "AsyncApi2_ServerBindings_allowed",
   "AsyncApi2_MessageBindings_allowed", "AsyncApi2_OperationBindings_allowed"}

\* the function of (value, key) throws: `key.startsWith('/')` and `key.match(...)`
\* read a method of the key; Array.isArray(value), typeof value and
\* responseCodeRegexp.test(key) read nothing of their argument
ResolverThrows(fn, v, k) ==
  CASE fn \in {"Oas3_Paths_additionalProperties", "Part000_Paths_additionalProperties",
               "AsyncApi2_ServerMap_additionalProperties"} -> ReadThrows(VString(k), FALSE)
    [] OTHER -> FALSE

\* the function of (value) throws: SecurityScheme.required and allowed read
\* `value?.type`; the allowed() of the bindings node types reads nothing
KeysFnThrows(fn, v) ==
  CASE fn \in {"Oas3_SecurityScheme_required", "Oas3_SecurityScheme_allowed"} ->
         ReadThrows(v, Oas3_SecurityScheme_optionalChaining)
    [] fn \in {"Part000_SecurityScheme_required", "Part000_SecurityScheme_allowed"} ->
         ReadThrows(v, Part000_SecurityScheme_optionalChaining)
    [] fn \in {"AsyncApi2_SecurityScheme_required", "AsyncApi2_SecurityScheme_allowed"} ->
         ReadThrows(v, AsyncApi2_SecurityScheme_optionalChaining)
    [] OTHER -> FALSE

\* the values of every shape: undefined, null, boolean, number, string, array,
\* object without and with a `type` field
ShapeValues ==
  {VUndefined} \cup ChildValues \cup {VObject({TypeKey}, t) : t \in TypeValues}

ShapeKeys == NamedKeys \cup GeneratedKeys

\* a function of (value, key) of the tables is called
CallResolver(fn, v, k) ==
  /\ op = "idle"
  /\ op' = "resolver"
  /\ callType' = fn
  /\ callKey' = k
  /\ callValue' = v
  /\ result' = IF ResolverThrows(fn, v, k) THEN Thrown ELSE ApplyResolver(fn, v, k)
  /\ UNCHANGED <<patched, bindingProps, exported, dialect, built, log, workers, lastIndex, traversal>>

\* a `required` or `allowed` function of the tables is called
CallKeysFn(fn, v) ==
  /\ op = "idle"
  /\ op' = "keysFn"
  /\ callType' = fn
  /\ callKey' = NoKey
  /\ callValue' = v
  /\ result' = IF KeysFnThrows(fn, v) THEN Thrown ELSE KeyList(ApplyKeysFn(fn, v))
  /\ UNCHANGED <<patched, bindingProps, exported, dialect, built, log, workers, lastIndex, traversal>>

CallAnyResolver ==
  \E fn \in ResolverNames : \E v \in ShapeValues : \E k \in ShapeKeys : CallResolver(fn, v, k)

CallAnyKeysFn == \E fn \in KeysFnNames : \E v \in ShapeValues : CallKeysFn(fn, v)

NextShapes ==
  \/ CallAnyResolver
  \/ CallAnyKeysFn
  \/ Return

SpecShapes == Init /\ [][NextShapes]_vars

-----------------------------------------------------------------------------
(* SpecTraversal: a traversal of a finite document tree against the        *)
(* OpenAPI 3 table: one resolveChild per key of each node, a descent into  *)
(* the child when the outcome names or is a node type.                     *)

\* the deepest document
MaxDepth == 3

\* the documents: every node down to the document's depth is an object with the
\* same keys
DocKeySets ==
  {{}, {<<"n", "o", "t">>}, {<<"n", "o", "t">>, <<"a", "l", "l", "O", "f">>},
   {<<"p", "r", "o", "p", "e", "r", "t", "i", "e", "s">>, <<"i", "t", "e", "m", "s">>},
   {<<"g", "e", "t">>, <<"c", "a", "l", "l", "b", "a", "c", "k", "s">>, <<"/", "p">>}}

DocRoots == {"Schema", "PathItem", "Callback"}

\* the keys of a document node at a level
DocKeysAt(level) == IF level < traversal.depth THEN traversal.keys ELSE {}

\* the document value of a node at a level
DocValueAt(level) == VObject(DocKeysAt(level), VUndefined)

\* the traversal opens the root of a document
StartTraversal(root, keys, depth) ==
  /\ traversal = NotStarted
  /\ traversal' =
       [phase |-> "running", root |-> root, keys |-> keys, depth |-> depth, steps |-> 0,
        visited |-> {[name |-> root, level |-> 0]},
        stack |-> <<[node |-> lookup("oas3", root), level |-> 0,
                     left |-> IF 0 < depth THEN keys ELSE {}]>>]
  /\ UNCHANGED <<patched, bindingProps, exported, op, dialect, callType, callKey, callValue>>
  /\ UNCHANGED <<result, built, log, workers, lastIndex>>

\* the step as it would be if it did not record the key as resolved
ResolveNext_AgainAndAgain ==
  /\ traversal.phase = "running"
  /\ traversal.stack # <<>>
  /\ Head(traversal.stack).left # {}
  /\ UNCHANGED vars

\* the traversal resolves the next key of the node it has open, and opens the
\* child when the outcome names a node type (registry lookup) or is one
ResolveNext ==
  /\ traversal.phase = "running"
  /\ traversal.stack # <<>>
  /\ Head(traversal.stack).left # {}
  /\ LET top == Head(traversal.stack)
         k == CHOOSE key \in top.left : TRUE
         outcome == resolveChild(top.node, k, DocValueAt(top.level + 1))
         name == IF outcome.kind = "Ref" THEN outcome.name ELSE "(in place)"
         child ==
           IF outcome.kind = "Ref"
           THEN <<[node |-> lookup("oas3", outcome.name), level |-> top.level + 1,
                   left |-> DocKeysAt(top.level + 1)]>>
           ELSE IF outcome.kind = "Node"
           THEN <<[node |-> outcome.node, level |-> top.level + 1,
                   left |-> DocKeysAt(top.level + 1)]>>
           ELSE <<>>
     IN  traversal' =
           [traversal EXCEPT
              !.steps = @ + 1,
              !.visited = IF child = <<>> THEN @ ELSE @ \cup {[name |-> name, level |-> top.level + 1]},
              !.stack = child \o <<[top EXCEPT !.left = @ \ {k}]>> \o Tail(traversal.stack)]
  /\ UNCHANGED <<patched, bindingProps, exported, op, dialect, callType, callKey, callValue>>
  /\ UNCHANGED <<result, built, log, workers, lastIndex>>

\* every key of the open node is resolved: the traversal leaves the node
LeaveNode ==
  /\ traversal.phase = "running"
  /\ traversal.stack # <<>>
  /\ Head(traversal.stack).left = {}
  /\ traversal' = [traversal EXCEPT !.stack = Tail(@)]
  /\ UNCHANGED <<patched, bindingProps, exported, op, dialect, callType, callKey, callValue>>
  /\ UNCHANGED <<result, built, log, workers, lastIndex>>

\* no node is open any more: the traversal has finished
FinishTraversal ==
  /\ traversal.phase = "running"
  /\ traversal.stack = <<>>
  /\ traversal' = [traversal EXCEPT !.phase = "done"]
  /\ UNCHANGED <<patched, bindingProps, exported, op, dialect, callType, callKey, callValue>>
  /\ UNCHANGED <<result, built, log, workers, lastIndex>>

StartAnyTraversal ==
  \E root \in DocRoots : \E keys \in DocKeySets : \E depth \in 0..MaxDepth :
    StartTraversal(root, keys, depth)

NextTraversal ==
  \/ StartAnyTraversal
  \/ ResolveNext
  \/ LeaveNode
  \/ FinishTraversal

\* the traversal is a loop of the engine that nothing preempts: once started, it
\* takes its next step whenever it has one
SpecTraversal ==
  Init /\ [][NextTraversal]_vars /\ WF_vars(ResolveNext \/ LeaveNode \/ FinishTraversal)


-----------------------------------------------------------------------------
(* The object literal of AsyncApi2Types, entry by entry in the order it is *)
(* written: the spread of AsyncApi2Bindings first, the explicit keys after. *)

\* the entries `{ ...AsyncApi2Bindings, Root, Tag, ... }` writes, in order
AsyncApi2Types_written ==
  <<[name |-> "HttpServerBinding", node |-> AsyncApi2Bindings.HttpServerBinding],
    [name |-> "HttpChannelBinding", node |-> AsyncApi2Bindings.HttpChannelBinding],
    [name |-> "HttpMessageBinding", node |-> AsyncApi2Bindings.HttpMessageBinding],
    [name |-> "HttpOperationBinding", node |-> AsyncApi2Bindings.HttpOperationBinding],
    [name |-> "WsServerBinding", node |-> AsyncApi2Bindings.WsServerBinding],
    [name |-> "WsChannelBinding", node |-> AsyncApi2Bindings.WsChannelBinding],
    [name |-> "WsMessageBinding", node |-> AsyncApi2Bindings.WsMessageBinding],
    [name |-> "WsOperationBinding", node |-> AsyncApi2Bindings.WsOperationBinding],
    [name |-> "KafkaServerBinding", node |-> AsyncApi2Bindings.KafkaServerBinding],
    [name |-> "KafkaTopicConfiguration", node |-> AsyncApi2Bindings.KafkaTopicConfiguration],
    [name |-> "KafkaChannelBinding", node |-> AsyncApi2Bindings.KafkaChannelBinding],
    [name |-> "KafkaMessageBinding", node |-> AsyncApi2Bindings.KafkaMessageBinding],
    [name |-> "KafkaOperationBinding", node |-> AsyncApi2Bindings.KafkaOperationBinding],
    [name |-> "AnypointmqServerBinding", node |-> AsyncApi2Bindings.AnypointmqServerBinding],
    [name |-> "AnypointmqChannelBinding", node |-> AsyncApi2Bindings.AnypointmqChannelBinding],
    [name |-> "AnypointmqMessageBinding", node |-> AsyncApi2Bindings.AnypointmqMessageBinding],
    [name |-> "AnypointmqOperationBinding", node |-> AsyncApi2Bindings.AnypointmqOperationBinding],
    [name |-> "AmqpServerBinding", node |-> AsyncApi2Bindings.AmqpServerBinding],
    [name |-> "AmqpChannelBinding", node |-> AsyncApi2Bindings.AmqpChannelBinding],
    [name |-> "AmqpMessageBinding", node |-> AsyncApi2Bindings.AmqpMessageBinding],
    [name |-> "AmqpOperationBinding", node |-> AsyncApi2Bindings.AmqpOperationBinding],
    [name |-> "Amqp1ServerBinding", node |-> AsyncApi2Bindings.Amqp1ServerBinding],
    [name |-> "Amqp1ChannelBinding", node |-> AsyncApi2Bindings.Amqp1ChannelBinding],
    [name |-> "Amqp1MessageBinding", node |-> AsyncApi2Bindings.Amqp1MessageBinding],
    [name |-> "Amqp1OperationBinding", node |-> AsyncApi2Bindings.Amqp1OperationBinding],
    [name |-> "MqttServerBindingLastWill", node |-> AsyncApi2Bindings.MqttServerBindingLastWill],
    [name |-> "MqttServerBinding", node |-> AsyncApi2Bindings.MqttServerBinding],
    [name |-> "MqttChannelBinding", node |-> AsyncApi2Bindings.MqttChannelBinding],
    [name |-> "MqttMessageBinding", node |-> AsyncApi2Bindings.MqttMessageBinding],
    [name |-> "MqttOperationBinding", node |-> AsyncApi2Bindings.MqttOperationBinding],
    [name |-> "Mqtt5ServerBinding", node |-> AsyncApi2Bindings.Mqtt5ServerBinding],
    [name |-> "Mqtt5ChannelBinding", node |-> AsyncApi2Bindings.Mqtt5ChannelBinding],
    [name |-> "Mqtt5MessageBinding", node |-> AsyncApi2Bindings.Mqtt5MessageBinding],
    [name |-> "Mqtt5OperationBinding", node |-> AsyncApi2Bindings.Mqtt5OperationBinding],
    [name |-> "NatsServerBinding", node |-> AsyncApi2Bindings.NatsServerBinding],
    [name |-> "NatsChannelBinding", node |-> AsyncApi2Bindings.NatsChannelBinding],
    [name |-> "NatsMessageBinding", node |-> AsyncApi2Bindings.NatsMessageBinding],
    [name |-> "NatsOperationBinding", node |-> AsyncApi2Bindings.NatsOperationBinding],
    [name |-> "JmsServerBinding", node |-> AsyncApi2Bindings.JmsServerBinding],
    [name |-> "JmsChannelBinding", node |-> AsyncApi2Bindings.JmsChannelBinding],
    [name |-> "JmsMessageBinding", node |-> AsyncApi2Bindings.JmsMessageBinding],
    [name |-> "JmsOperationBinding", node |-> AsyncApi2Bindings.JmsOperationBinding],
    [name |-> "SolaceServerBinding", node |-> AsyncApi2Bindings.SolaceServerBinding],
    [name |-> "SolaceChannelBinding", node |-> AsyncApi2Bindings.SolaceChannelBinding],
    [name |-> "SolaceMessageBinding", node |-> AsyncApi2Bindings.SolaceMessageBinding],
    [name |-> "SolaceDestination", node |-> AsyncApi2Bindings.SolaceDestination],
    [name |-> "SolaceOperationBinding", node |-> AsyncApi2Bindings.SolaceOperationBinding],
    [name |-> "StompServerBinding", node |-> AsyncApi2Bindings.StompServerBinding],
    [name |-> "StompChannelBinding", node |-> AsyncApi2Bindings.StompChannelBinding],
    [name |-> "StompMessageBinding", node |-> AsyncApi2Bindings.StompMessageBinding],
    [name |-> "StompOperationBinding", node |-> AsyncApi2Bindings.StompOperationBinding],
    [name |-> "RedisServerBinding", node |-> AsyncApi2Bindings.RedisServerBinding],
    [name |-> "RedisChannelBinding", node |-> AsyncApi2Bindings.RedisChannelBinding],
    [name |-> "RedisMessageBinding", node |-> AsyncApi2Bindings.RedisMessageBinding],
    [name |-> "RedisOperationBinding", node |-> AsyncApi2Bindings.RedisOperationBinding],
    [name |-> "MercureServerBinding", node |-> AsyncApi2Bindings.MercureServerBinding],
    [name |-> "MercureChannelBinding", node |-> AsyncApi2Bindings.MercureChannelBinding],
    [name |-> "MercureMessageBinding", node |-> AsyncApi2Bindings.MercureMessageBinding],
    [name |-> "MercureOperationBinding", node |-> AsyncApi2Bindings.MercureOperationBinding],
    [name |-> "ServerBindings", node |-> AsyncApi2Bindings.ServerBindings],
    [name |-> "ChannelBindings", node |-> AsyncApi2Bindings.ChannelBindings],
    [name |-> "MessageBindings", node |-> AsyncApi2Bindings.MessageBindings],
    [name |-> "OperationBindings", node |-> AsyncApi2Bindings.OperationBindings],
    [name |-> "Root", node |-> AsyncApi2_Root],
    [name |-> "Tag", node |-> AsyncApi2_Tag],
    [name |-> "TagList", node |-> listOf("Tag", {})],
    [name |-> "ServerMap", node |-> AsyncApi2_ServerMap],
    [name |-> "ExternalDocs", node |-> AsyncApi2_ExternalDocs],
    [name |-> "Server", node |-> AsyncApi2_Server],
    [name |-> "ServerVariable", node |-> AsyncApi2_ServerVariable],
    [name |-> "ServerVariablesMap", node |-> mapOf("ServerVariable", {})],
    [name |-> "SecurityRequirement", node |-> AsyncApi2_SecurityRequirement],
    [name |-> "SecurityRequirementList", node |-> listOf("SecurityRequirement", {})],
    [name |-> "Info", node |-> AsyncApi2_Info],
    [name |-> "Contact", node |-> AsyncApi2_Contact],
    [name |-> "License", node |-> AsyncApi2_License],
    [name |-> "ChannelMap", node |-> AsyncApi2_ChannelMap],
    [name |-> "Channel", node |-> AsyncApi2_Channel],
    [name |-> "Parameter", node |-> AsyncApi2_Parameter],
    [name |-> "ParametersMap", node |-> mapOf("Parameter", {})],
    [name |-> "Operation", node |-> AsyncApi2_Operation],
    [name |-> "Schema", node |-> JsonSchemaDraft7Shared.Schema],
    [name |-> "MessageExample", node |-> AsyncApi2_MessageExample],
    [name |-> "SchemaProperties", node |-> JsonSchemaDraft7Shared.SchemaProperties],
    [name |-> "DiscriminatorMapping", node |-> JsonSchemaDraft7Shared.DiscriminatorMapping],
    [name |-> "Discriminator", node |-> JsonSchemaDraft7Shared.Discriminator],
    [name |-> "Components", node |-> AsyncApi2_Components],
    [name |-> "NamedSchemas", node |-> mapOf("Schema", {})],
    [name |-> "NamedMessages", node |-> mapOf("Message", {})],
    [name |-> "NamedMessageTraits", node |-> mapOf("MessageTrait", {})],
    [name |-> "NamedOperationTraits", node |-> mapOf("OperationTrait", {})],
    [name |-> "NamedParameters", node |-> mapOf("Parameter", {})],
    [name |-> "NamedSecuritySchemes", node |-> mapOf("SecurityScheme", {})],
    [name |-> "NamedCorrelationIds", node |-> mapOf("CorrelationId", {})],
    [name |-> "ImplicitFlow", node |-> AsyncApi2_ImplicitFlow],
    [name |-> "PasswordFlow", node |-> AsyncApi2_PasswordFlow],
    [name |-> "ClientCredentials", node |-> AsyncApi2_ClientCredentials],
    [name |-> "AuthorizationCode", node |-> AsyncApi2_AuthorizationCode],
    [name |-> "SecuritySchemeFlows", node |-> AsyncApi2_SecuritySchemeFlows],
    [name |-> "SecurityScheme", node |-> AsyncApi2_SecurityScheme],
    [name |-> "Message", node |-> AsyncApi2_Message],
    [name |-> "MessageBindings", node |-> AsyncApi2_MessageBindings],
    [name |-> "OperationBindings", node |-> AsyncApi2_OperationBindings],
    [name |-> "OperationTrait", node |-> AsyncApi2_OperationTrait],
    [name |-> "OperationTraitList", node |-> listOf("OperationTrait", {})],
    [name |-> "MessageTrait", node |-> AsyncApi2_MessageTrait],
    [name |-> "MessageTraitList", node |-> listOf("MessageTrait", {})],
    [name |-> "MessageExampleList", node |-> listOf("MessageExample", {})],
    [name |-> "CorrelationId", node |-> AsyncApi2_CorrelationId],
    [name |-> "Dependencies", node |-> JsonSchemaDraft7Shared.Dependencies]>>

\* the object an object literal evaluates to: of two entries of one name the later one stays
ObjectLiteral(entries) ==
  [n \in {entries[i].name : i \in DOMAIN entries} |->
     LET last == CHOOSE i \in DOMAIN entries :
                   /\ entries[i].name = n
                   /\ \A j \in DOMAIN entries : entries[j].name = n => j <= i
     IN  entries[last].node]
-----------------------------------------------------------------------------
(* The claims.                                                             *)

\* the node type the call in progress is about
CallNode == lookup(dialect, callType)

\* the property name the call's key spells
CallName == Str(callKey)

OnType(dialects, types) == dialect \in dialects /\ callType \in types

ExtensionPrefix == <<"x", "-">>

\* C1: a key listed in D.properties is resolved by its property rule, whatever
\* additionalProperties says, for every value; on the OAS3 Responses node type the
\* key 'default' resolves to the reference 'Response' although the
\* additionalProperties function returns undefined for that key.
C1_PropertiesTakePrecedence ==
  op = "resolveChild" =>
    LET D == CallNode
        name == CallName
    IN  /\ name \in DOMAIN D.properties =>
              result = ResolveRule(D.properties[name], callValue, callKey)
        /\ OnType(Oas3Dialects, {"Responses"}) /\ name = "default" =>
              /\ result = Ref("Response")
              /\ ApplyResolver(D.additionalProperties.fn, callValue, callKey) = Undefined

C1_Witness ==
  /\ op = "resolveChild"
  /\ OnType({"oas3"}, {"Responses"})
  /\ CallName = "default"
  /\ result = Ref("Response")

\* C2: the steps are tried in the order properties, extensionsPrefix,
\* additionalProperties, rejection: a key that starts with the extensions prefix and
\* is listed in properties is resolved by its property rule and is no unvalidated
\* extension (OAS3 Root 'x-webhooks' and 'x-tagGroups', Info 'x-logo', Operation
\* 'x-codeSamples'), and one that is not listed is accepted as an extension.
C2_StepOrder ==
  op = "resolveChild" =>
    LET D == CallNode
        name == CallName
        listed == name \in DOMAIN D.properties
        extension == IsExtensionKey(D, callKey)
    IN  /\ listed /\ extension =>
              /\ result # Extension
              /\ result = ResolveRule(D.properties[name], callValue, callKey)
        /\ ~listed /\ extension => result = Extension
        /\ ~listed /\ ~extension /\ D.additionalProperties # Undefined =>
              result = ResolveRule(D.additionalProperties, callValue, callKey)
        /\ ~listed /\ ~extension /\ D.additionalProperties = Undefined => result = Reject
        /\ OnType(Oas3Dialects, {"Root"}) /\ name = "x-webhooks" =>
              result = Ref("WebhooksMap")
        /\ OnType(Oas3Dialects, {"Root"}) /\ name = "x-tagGroups" => result = Ref("TagGroups")
        /\ OnType(Oas3Dialects, {"Info"}) /\ name = "x-logo" => result = Ref("Logo")
        /\ OnType(Oas3Dialects, {"Operation"}) /\ name = "x-codeSamples" =>
              result = Ref("XCodeSampleList")

C2_Witness ==
  /\ op = "resolveChild"
  /\ OnType({"oas3"}, {"Info"})
  /\ CallName = "x-logo"
  /\ IsExtensionKey(CallNode, callKey)
  /\ result = Ref("Logo")

\* C3: a key that is not in D.properties, on a node type with no
\* additionalProperties and no extensionsPrefix the key starts with, is rejected:
\* so is every key outside the properties of the OAS3 Logo, XCodeSample and
\* XUsePkce, and of the AsyncAPI2 Root and Channel, keys starting with 'x-' included.
C3_UnknownKeyRejected ==
  op = "resolveChild" =>
    LET D == CallNode
    IN  CallName \notin DOMAIN D.properties =>
          /\ D.additionalProperties = Undefined /\ ~IsExtensionKey(D, callKey) =>
                result = Reject
          /\ OnType(Oas3Dialects, {"Logo", "XCodeSample", "XUsePkce"}) => result = Reject
          /\ OnType({"asyncapi2"}, {"Root", "Channel"}) => result = Reject

C3_Witness ==
  /\ op = "resolveChild"
  /\ OnType({"asyncapi2"}, {"Root"})
  /\ StartsWith(callKey, ExtensionPrefix)
  /\ result = Reject

\* C4: on the OAS3 Paths node type a key resolves to the reference 'PathItem' if
\* and only if it starts with '/', for every value; every other key, also one
\* starting with 'x-', is rejected as a key of a node type without
\* additionalProperties is.
C4_PathsKeys ==
  op = "resolveChild" /\ OnType(Oas3Dialects, {"Paths"}) =>
    /\ result = Ref("PathItem") <=> StartsWith(callKey, <<"/">>)
    /\ ~StartsWith(callKey, <<"/">>) =>
         result = resolveChild(NodeType([properties |-> <<>>]), callKey, callValue)
    /\ result \in {Ref("PathItem"), Reject}

C4_Witness ==
  /\ op = "resolveChild"
  /\ OnType({"oas3"}, {"Paths"})
  /\ StartsWith(callKey, ExtensionPrefix)
  /\ result = Reject

\* the names a rule can resolve to: its own, those of the node type it holds, or the
\* one a scalar resolves directly as
NamesOfRule(rule) ==
  CASE rule.kind = "Ref" -> {rule.name}
    [] rule.kind = "Node" ->
         {r.name : r \in {x \in {rule.node.properties[p] : p \in DOMAIN rule.node.properties}
                                  \cup {rule.node.additionalProperties} : x.kind = "Ref"}}
    [] rule.kind = "Leaf" ->
         IF "directResolveAs" \in DOMAIN rule.constraint
         THEN {rule.constraint.directResolveAs}
         ELSE {}
    [] OTHER -> {}

\* C5: every type name a resolution returns (from a property rule, an
\* additionalProperties rule, a function, or as the argument of listOf or mapOf) is
\* a key of the registry of its dialect: no resolution returns a dangling name.
C5_NoDanglingName ==
  op = "resolveChild" => NamesOfRule(result) \subseteq DOMAIN Registry(dialect)

C5_Witness ==
  /\ op = "resolveChild"
  /\ OnType({"asyncapi2"}, {"SolaceOperationBinding"})
  /\ result.kind = "Node"
  /\ NamesOfRule(result) = {"SolaceDestination"}

\* C6: checkRequired returns exactly the required keys the node does not have:
\* nothing when all are there or when `required` is absent or empty; for the OAS3
\* Parameter (required name and in) and the node {name} it returns {in}.
C6_MissingRequired ==
  op = "checkRequired" =>
    /\ result = {name \in KeysOf(CallNode.required, callValue) :
                    name \notin OwnNames(callValue)}
    /\ KeysOf(CallNode.required, callValue) \subseteq OwnNames(callValue) => result = {}
    /\ CallNode.required \in {Undefined, KeyList(<<>>)} => result = {}
    /\ OnType(Oas3Dialects, {"Parameter"}) =>
         /\ KeysOf(CallNode.required, callValue) = {"name", "in"}
         /\ OwnNames(callValue) = {"name"} => result = {"in"}

C6_Witness ==
  /\ op = "checkRequired"
  /\ OnType({"oas3"}, {"Parameter"})
  /\ OwnNames(callValue) = {"name"}
  /\ result = {"in"}

\* the required keys the claim states for each type of an OAS3 security scheme
C7_Expected(type) ==
  CASE IsStr(type, "apiKey") -> {"type", "name", "in"}
    [] IsStr(type, "http") -> {"type", "scheme"}
    [] IsStr(type, "oauth2") -> {"type", "flows"}
    [] IsStr(type, "openIdConnect") -> {"type", "openIdConnectUrl"}
    [] OTHER -> {"type"}

\* C7: required(v) of the OAS3 SecurityScheme depends on v.type alone: type, name
\* and in for 'apiKey'; type and scheme for 'http'; type and flows for 'oauth2';
\* type and openIdConnectUrl for 'openIdConnect'; type for any other or missing
\* type. So {type: 'http', scheme} misses nothing and {type: 'apiKey'} misses
\* exactly name and in.
C7_SecuritySchemeRequired ==
  op = "checkRequired" /\ OnType(Oas3Dialects, {"SecurityScheme"}) =>
    /\ KeysOf(CallNode.required, callValue) = C7_Expected(TypeField(callValue))
    /\ result = C7_Expected(TypeField(callValue)) \ OwnNames(callValue)
    /\ IsStr(TypeField(callValue), "http") /\ OwnNames(callValue) = {"type", "scheme"} =>
         result = {}
    /\ IsStr(TypeField(callValue), "apiKey") /\ OwnNames(callValue) = {"type"} =>
         result = {"name", "in"}

C7_Witness ==
  /\ op = "checkRequired"
  /\ OnType({"oas3"}, {"SecurityScheme"})
  /\ IsStr(TypeField(callValue), "apiKey")
  /\ OwnNames(callValue) = {"type"}
  /\ result = {"name", "in"}

\* C8: checkDisjunctiveRequired reports a violation if and only if requiredOneOf is
\* set and the node has none of its keys, whatever checkRequired finds; a node with
\* several of them passes. For the OAS3 Parameter and Header (schema or content) a
\* node with both passes and a node with neither fails.
C8_DisjunctiveRequired ==
  op = "checkDisjunctiveRequired" =>
    /\ result <=>
         /\ CallNode.requiredOneOf # Undefined
         /\ \A name \in Range(CallNode.requiredOneOf.keys) : name \notin OwnNames(callValue)
    /\ OnType(Oas3Dialects, {"Parameter", "Header"}) =>
         result <=> {"schema", "content"} \cap OwnNames(callValue) = {}

C8_Witness ==
  /\ op = "checkDisjunctiveRequired"
  /\ OnType({"oas3"}, {"Header"})
  /\ {"schema", "content"} \subseteq OwnNames(callValue)
  /\ result = FALSE

\* the protocol names the bindings node types of asyncapi2.ts allow
C9_Protocols ==
  {"http", "ws", "kafka", "anypointmq", "amqp", "amqp1", "mqtt", "mqtt5", "nats", "jms",
   "sns", "solace", "sqs", "stomp", "redis", "mercure", "ibmmq", "googlepubsub", "pulsar"}

\* C9: with allowed(V) = A, checkAllowed reports every key of V that is not in A and
\* does not start with the extensions prefix, also when resolveChild accepts the
\* key. On the four AsyncAPI2 bindings node types every key outside the 19 protocol
\* names is reported, although additionalProperties ({type: 'object'}) accepts it.
C9_AllowList ==
  op = "checkAllowed" =>
    /\ CallNode.allowed # Undefined =>
         \A k \in OwnKeys(callValue) :
           Str(k) \notin KeysOf(CallNode.allowed, callValue) /\ ~IsExtensionKey(CallNode, k) =>
             Str(k) \in result
    /\ OnType({"asyncapi2"}, BindingsTypes) =>
         \A k \in OwnKeys(callValue) :
           Str(k) \notin C9_Protocols =>
             /\ Str(k) \in result
             /\ resolveChild(CallNode, k, VObject({}, VUndefined)) = Leaf([type |-> "object"])

C9_Witness ==
  /\ op = "checkAllowed"
  /\ OnType({"asyncapi2"}, {"MessageBindings"})
  /\ "bogus" \in result
  /\ "x-foo" \in result
  /\ "kafka" \in OwnNames(callValue)

\* C10: a key that starts with the extensions prefix does not count against the
\* allow-list: checkAllowed reports no key starting with 'x-' on the SecurityScheme
\* of OAS3 and of AsyncAPI2, for every type; not 'x-defaultClientId' either, which
\* the OAS3 SecurityScheme lists in its properties and allowed() never returns.
C10_ExtensionKeysAllowed ==
  op = "checkAllowed" /\ callType = "SecurityScheme" =>
    /\ \A k \in OwnKeys(callValue) : StartsWith(k, ExtensionPrefix) => Str(k) \notin result
    /\ dialect \in Oas3Dialects =>
         /\ "x-defaultClientId" \in DOMAIN CallNode.properties
         /\ "x-defaultClientId" \notin KeysOf(CallNode.allowed, callValue)

C10_Witness ==
  /\ op = "checkAllowed"
  /\ OnType({"oas3"}, {"SecurityScheme"})
  /\ IsStr(TypeField(callValue), "http")
  /\ "x-defaultClientId" \in OwnNames(callValue)
  /\ "name" \in result
  /\ "x-defaultClientId" \notin result

\* the element type the claim names for three lists of the OAS3 tables
C11_ElementOf == [TagList |-> "Tag", ServerList |-> "Server", ParameterList |-> "Parameter"]

\* C11: on a node type built by listOf(T), every index resolves to the reference T,
\* whatever the index and the element are: so on TagList, ServerList and
\* ParameterList, and on the lists Schema holds for allOf, anyOf and oneOf.
C11_SequenceOf ==
  op = "resolveChild" =>
    LET D == CallNode
    IN  /\ D.container = "sequence" =>
              /\ result.kind = "Ref"
              /\ result = resolveChild(D, <<"0">>, VNull)
        /\ OnType(Oas3Dialects, DOMAIN C11_ElementOf) => result = Ref(C11_ElementOf[callType])
        /\ OnType(Oas3Dialects, {"Schema"}) /\ CallName \in {"allOf", "anyOf", "oneOf"} =>
              /\ result.kind = "Node"
              /\ result.node.container = "sequence"
              /\ \A k \in NamedKeys \cup GeneratedKeys : \A v \in ChildValues :
                   resolveChild(result.node, k, v) = Ref("Schema")

C11_Witness ==
  /\ op = "resolveChild"
  /\ OnType({"oas3"}, {"ParameterList"})
  /\ callKey = <<"0">>
  /\ callValue = VObject({}, VUndefined)
  /\ result = Ref("Parameter")

C13_Protocols ==
  {"http", "ws", "kafka", "anypointmq", "amqp", "amqp1", "mqtt", "mqtt5", "nats", "jms",
   "solace", "stomp", "redis", "mercure"}

\* the names the per-protocol node types of asyncapi2.ts begin with
C13_Prefix ==
  [http |-> "Http", ws |-> "Ws", kafka |-> "Kafka", anypointmq |-> "Anypointmq",
   amqp |-> "Amqp", amqp1 |-> "Amqp1", mqtt |-> "Mqtt", mqtt5 |-> "Mqtt5", nats |-> "Nats",
   jms |-> "Jms", solace |-> "Solace", stomp |-> "Stomp", redis |-> "Redis",
   mercure |-> "Mercure"]

\* ... and end with
C13_Suffix ==
  [ChannelBindings |-> "ChannelBinding", ServerBindings |-> "ServerBinding",
   MessageBindings |-> "MessageBinding", OperationBindings |-> "OperationBinding"]

\* C13: the properties of a node type extended after its definition are its
\* original keys and the added ones, no more: each of the four bindings node types,
\* written with no property, has after every assignment the keys assigned so far,
\* and in AsyncApi2Types, once the module is initialized, exactly the 14 protocol
\* keys, each bound to the node type assigned for it.
C13_ExtensionRoundTrip ==
  /\ op = "idle" =>
       \A b \in BindingsTypes :
         DOMAIN bindingProps[b] =
           {AsyncApi2_Assignments[i].key :
              i \in {j \in 1..patched : AsyncApi2_Assignments[j].target = b}}
  /\ exported = "types" /\ (op = "idle" \/ callType \in BindingsTypes) =>
       LET types == AsyncApi2Types
       IN  \A b \in BindingsTypes :
             /\ DOMAIN types[b].properties = C13_Protocols
             /\ \A p \in C13_Protocols :
                  types[b].properties[p] = Node(types[C13_Prefix[p] \o C13_Suffix[b]])

C13_Witness ==
  /\ op = "resolveChild"
  /\ OnType({"asyncapi2"}, {"ServerBindings"})
  /\ CallName = "ws"
  /\ result = Node(AsyncApi2Types["WsServerBinding"])

\* C14: every assignment that adds a protocol key to a bindings node type runs
\* before AsyncApi2Bindings and AsyncApi2Types are built: a call finds all the
\* assignments done and each bindings node type with its 14 keys, and no
\* assignment runs once an export or a call has happened.
C14_ExtensionBeforeResolution ==
  [][/\ bindingProps' # bindingProps => exported = "none" /\ exported' = "none" /\ op = "idle"
     /\ exported # "none" => bindingProps' = bindingProps /\ patched' = patched
     /\ exported' # "none" => patched' = Len(AsyncApi2_Assignments)
     /\ op' # "idle" =>
          /\ exported' = "types"
          /\ \A b \in BindingsTypes : DOMAIN bindingProps'[b] = C13_Protocols]_vars

C14_Witness ==
  /\ op = "resolveChild"
  /\ OnType({"asyncapi2"}, {"ChannelBindings"})
  /\ CallName = "mercure"
  /\ patched = Len(AsyncApi2_Assignments)
  /\ result.kind = "Node"

\* C17: a key of a DiscriminatorMapping resolves to the plain string leaf when its
\* value is a bare alias such as "Dog", and to the string leaf that resolves
\* directly as Schema when the value is shaped as a pointer (isMappingRef): one of
\* the two for every value, whatever the key is.
C17_MappingEntry ==
  op = "resolveChild" /\ OnType(Oas3Dialects, {"DiscriminatorMapping"}) =>
    /\ isMappingRef(callValue) =>
         result = Leaf([type |-> "string", directResolveAs |-> "Schema"])
    /\ ~isMappingRef(callValue) => result = Leaf([type |-> "string"])
    /\ callValue = VString(<<"D", "o", "g">>) => result = Leaf([type |-> "string"])
    /\ callValue = VString(<<"#", "/", "D", "o", "g">>) =>
         result = Leaf([type |-> "string", directResolveAs |-> "Schema"])
    /\ result = resolveChild(CallNode, <<"0">>, callValue)

C17_Witness ==
  /\ op = "resolveChild"
  /\ OnType({"oas3"}, {"DiscriminatorMapping"})
  /\ callValue = VString(<<"#", "/", "D", "o", "g">>)
  /\ StartsWith(callKey, ExtensionPrefix)
  /\ result = Leaf([type |-> "string", directResolveAs |-> "Schema"])


\* the keys of Schema whose rule is a list of Schema written in place
C18_InlineKeys == {"allOf", "anyOf", "oneOf", "items"}

Collided ==
  \E i, j \in DOMAIN log :
    /\ i < j
    /\ log[i].target = log[j].target
    /\ log[i].key = log[j].key
    /\ log[i].node # log[j].node

C16_Idempotent ==
  [][log' # log =>
       LET s == log'[Len(log')]
       IN  /\ s.key \in DOMAIN bindingProps[s.target]
           /\ bindingProps[s.target][s.key] = s.node
           => /\ bindingProps' = bindingProps
              /\ exported' = "none"]_vars

C16_Witness ==
  /\ Len(log) = 3
  /\ log[1] = log[3]
  /\ log[2].target = log[1].target
  /\ log[2].key # log[1].key
  /\ exported = "types"
  /\ DOMAIN bindingProps[log[1].target] = {log[1].key, log[2].key}
  /\ bindingProps[log[1].target][log[1].key] = log[1].node

\* C20: once the modules are initialized, a call of resolveChild, checkRequired or
\* checkAllowed by either traversal changes neither the registries nor the state
\* of an object the tables share, and what each traversal holds is what its call
\* returns alone, whatever the other traversal called before or in between.
C20_SafeToShare ==
  [][workers' # workers =>
       /\ exported = "types"
       /\ UNCHANGED <<patched, bindingProps, exported, lastIndex>>
       /\ \A w \in Workers :
            workers'[w] # IdleWorker => workers'[w].result = Alone(workers'[w])]_vars

C20_Witness ==
  /\ \A w \in Workers :
       /\ workers[w].op = "resolveChild"
       /\ workers[w].dialect = "oas3"
       /\ workers[w].type = "Responses"
       /\ workers[w].key = <<"2", "0", "0">>
       /\ workers[w].result = Ref("Response")

\* the other table of the OpenAPI 3 sources
C21_OtherTable == [oas3 |-> "part000", part000 |-> "oas3"]

\* C21: the overrides given to listOf and mapOf change no outcome, and the two
\* OpenAPI 3 tables register the same names and give the same outcome of
\* resolveChild, checkRequired, checkDisjunctiveRequired and checkAllowed for
\* every type name, key and value.
C21_OverridesDescriptive ==
  /\ DOMAIN Oas3Types = DOMAIN Part000_Oas3Types
  /\ op # "idle" /\ dialect \in Oas3Dialects =>
       LET D == CallNode
           E == lookup(C21_OtherTable[dialect], callType)
           plain == [D EXCEPT !.overrides = {}]
       IN  /\ E.container = D.container
           /\ op = "resolveChild" =>
                /\ result = resolveChild(E, callKey, callValue)
                /\ result = resolveChild(plain, callKey, callValue)
           /\ op = "checkRequired" => result = checkRequired(E, callValue)
           /\ op = "checkDisjunctiveRequired" =>
                result = checkDisjunctiveRequired(E, callValue)
           /\ op = "checkAllowed" => result = checkAllowed(E, callValue)

C21_Witness ==
  /\ op = "resolveChild"
  /\ OnType({"part000"}, {"ServerList"})
  /\ CallNode.overrides # {}
  /\ lookup("oas3", callType).overrides = {}
  /\ result = Ref("Server")

\* the keys whose rule is null, by node type
C22_NullKeys == [Root |-> {"openapi", "asyncapi"}, Link |-> {"parameters", "requestBody"},
                 Schema |-> {"default"}]

\* the call is on a key the tables give the rule null
C22_OnNullKey ==
  \/ OnType(Oas3Dialects, {"Root"}) /\ CallName = "openapi"
  \/ OnType({"asyncapi2"}, {"Root"}) /\ CallName = "asyncapi"
  \/ OnType(Oas3Dialects, {"Link"}) /\ CallName \in C22_NullKeys["Link"]
  \/ OnType(Oas3Dialects, {"Schema"}) /\ CallName \in C22_NullKeys["Schema"]

\* C22: 'openapi' on the OpenAPI Root, 'asyncapi' on the AsyncAPI Root, 'parameters'
\* and 'requestBody' on Link and 'default' on Schema resolve to the null rule for
\* every value, and no other key of a node type written in the tables does; such a
\* key, when the node has it, is not reported as missing, and 'openapi' and
\* 'asyncapi' are reported when the Root node lacks them.
C22_NullRule ==
  /\ op = "resolveChild" /\ CallNode.kind = "NodeType" => (result = None <=> C22_OnNullKey)
  /\ op = "checkRequired" /\ callType \in DOMAIN C22_NullKeys =>
       /\ \A name \in C22_NullKeys[callType] \cap OwnNames(callValue) : name \notin result
       /\ OnType(Oas3Dialects, {"Root"}) =>
            ("openapi" \in result <=> "openapi" \notin OwnNames(callValue))
       /\ OnType({"asyncapi2"}, {"Root"}) =>
            ("asyncapi" \in result <=> "asyncapi" \notin OwnNames(callValue))

C22_Witness ==
  /\ op = "resolveChild"
  /\ OnType({"asyncapi2"}, {"Root"})
  /\ CallName = "asyncapi"
  /\ callValue = VArray
  /\ result = None

\* the functions of SecurityScheme
C23_SecuritySchemeFns ==
  {"Oas3_SecurityScheme_required", "Oas3_SecurityScheme_allowed",
   "Part000_SecurityScheme_required", "Part000_SecurityScheme_allowed",
   "AsyncApi2_SecurityScheme_required", "AsyncApi2_SecurityScheme_allowed"}

\* C23: no function written in the tables throws, whatever the shape of the value
\* and whatever the key: a function of (value, key) returns a name, a leaf, a node
\* type or undefined, and SecurityScheme.required and allowed return a list that
\* names `type`, the list of their default case when the value is no object.
C23_NoResolverThrows ==
  /\ op = "resolver" =>
       /\ result # Thrown
       /\ result.kind \in {"Ref", "Leaf", "Node", "Undefined"}
  /\ op = "keysFn" =>
       /\ result # Thrown
       /\ result.kind = "Keys"
       /\ callType \in C23_SecuritySchemeFns =>
            /\ "type" \in Range(result.keys)
            /\ callValue.kind # "object" =>
                 result.keys \in {<<"type">>, <<"type", "description">>}

C23_Witness ==
  /\ op = "keysFn"
  /\ callType = "AsyncApi2_SecurityScheme_allowed"
  /\ callValue = VNull
  /\ result = KeyList(<<"type", "description">>)

RECURSIVE C24_Power(_, _)
C24_Power(b, n) == IF n = 0 THEN 1 ELSE b * C24_Power(b, n - 1)

RECURSIVE C24_Nodes(_, _)
\* the nodes of the levels 0..n-1 of a tree whose every node has b children
C24_Nodes(b, n) == IF n = 0 THEN 0 ELSE C24_Power(b, n - 1) + C24_Nodes(b, n - 1)

\* the node types of the table are on cycles: a key of a Schema leads to a Schema
\* again, and PathItem, Operation, CallbacksMap and Callback lead round to PathItem
C24_Cyclic ==
  LET next(t, k) == resolveChild(lookup("oas3", t), k, VObject({}, VUndefined))
  IN  /\ next("Schema", <<"n", "o", "t">>) = Ref("Schema")
      /\ next("Schema", <<"i", "t", "e", "m", "s">>) = Ref("Schema")
      /\ next("Schema", <<"p", "r", "o", "p", "e", "r", "t", "i", "e", "s">>) = Ref("SchemaProperties")
      /\ next("SchemaProperties", <<"x">>) = Ref("Schema")
      /\ next("PathItem", <<"g", "e", "t">>) = Ref("Operation")
      /\ next("Operation", <<"c", "a", "l", "l", "b", "a", "c", "k", "s">>) = Ref("CallbacksMap")
      /\ next("CallbacksMap", <<"x">>) = Ref("Callback")
      /\ next("Callback", <<"/", "p">>) = Ref("PathItem")

\* C24: the node types are on cycles, and yet a traversal of a finite document
\* finishes: it resolves each key of each document node at most once, has never
\* more nodes open than the document is deep, and once started it eventually has no node open.
C24_Terminates ==
  /\ [](traversal.phase # "none" =>
          /\ C24_Cyclic
          /\ traversal.steps <=
               Cardinality(traversal.keys)
                 * C24_Nodes(Cardinality(traversal.keys), traversal.depth)
          /\ Len(traversal.stack) <= traversal.depth + 1
          /\ \A i \in DOMAIN traversal.stack : traversal.stack[i].level <= traversal.depth)
  /\ (traversal.phase = "running") ~> (traversal.phase = "done")

C24_Witness ==
  /\ traversal.phase = "done"
  /\ traversal.root = "Callback"
  /\ [name |-> "PathItem", level |-> 1] \in traversal.visited
  /\ [name |-> "Operation", level |-> 2] \in traversal.visited
  /\ [name |-> "CallbacksMap", level |-> 3] \in traversal.visited
  /\ traversal.steps > 0

\* the names the literal of AsyncApi2Types writes more than once
C25_WrittenTwice ==
  LET W == AsyncApi2Types_written
  IN  {W[i].name : i \in {i \in DOMAIN W : \E j \in DOMAIN W : j # i /\ W[j].name = W[i].name}}

\* C25: a name of AsyncApi2Types has one node type: the registry is what the
\* literal's entries leave, two entries of one name hold the same node type,
\* MessageBindings and OperationBindings are the names written twice, and for
\* every name of AsyncApi2Bindings the registry holds the node type of
\* AsyncApi2Bindings, whose properties are what the assignments have put there;
\* a call on a name written twice is answered by that node type.
\* The registry depends on the assignments done and on nothing else, so the
\* whole of it is looked at where no call is under way.
C25_UniqueNames ==
  /\ op = "idle" =>
       LET W == AsyncApi2Types_written
           T == AsyncApi2Types
           B == AsyncApi2Bindings
       IN  /\ T = ObjectLiteral(W)
           /\ \A i \in DOMAIN W : T[W[i].name] = W[i].node
           /\ C25_WrittenTwice = {"MessageBindings", "OperationBindings"}
           /\ C25_WrittenTwice \subseteq DOMAIN B
           /\ \A n \in DOMAIN B : T[n] = B[n]
           /\ exported = "types" =>
                \A i \in DOMAIN AsyncApi2_Assignments :
                  LET a == AsyncApi2_Assignments[i]
                  IN  /\ a.key \in DOMAIN T[a.target].properties
                      /\ T[a.target].properties[a.key] =
                           Node(AsyncApi2_ProtocolNodeTypes[a.node])
  /\ op = "resolveChild" /\ dialect = "asyncapi2"
       /\ callType \in {"MessageBindings", "OperationBindings"} =>
       LET D == AsyncApi2Bindings[callType]
       IN  /\ CallNode = D
           /\ result = resolveChild(D, callKey, callValue)

C25_Witness ==
  /\ exported = "types"
  /\ op = "resolveChild"
  /\ dialect = "asyncapi2"
  /\ callType = "MessageBindings"
  /\ callKey = <<"k", "a", "f", "k", "a">>
  /\ result = Node(AsyncApi2_ProtocolNodeTypes.KafkaMessageBinding)
  /\ lookup("asyncapi2", "MessageBindings") = AsyncApi2Bindings.MessageBindings

C26_Digits == {"0", "1", "2", "3", "4", "5", "6", "7", "8", "9"}

\* `default`, or three characters: a digit, then two of the digits, `X` and `x`
C26_Accepted(k) ==
  \/ k = <<"d", "e", "f", "a", "u", "l", "t">>
  \/ /\ Len(k) = 3
     /\ k[1] \in C26_Digits
     /\ k[2] \in C26_Digits \cup {"X", "x"}
     /\ k[3] \in C26_Digits \cup {"X", "x"}

\* C26: on the OAS3 Responses node type resolveChild returns the reference
\* 'Response' for the key `default` and for a key of three characters, a digit
\* followed by two of the digits, `X` and `x`, and rejects every other key ('200',
\* '2XX', '4xx', '2X0' are accepted, 'X00', '20', '2000', '' and 'x-foo' are not); the
\* outcome is the same for every value, and the same at every call: test reads the
\* key only, whatever lastIndex the regular expression has.
C26_ResponseCodes ==
  op = "resolveChild" /\ OnType(Oas3Dialects, {"Responses"}) =>
    LET D == CallNode
        found == ResponseCodeMatches(dialect, callKey)
    IN  /\ result = IF C26_Accepted(callKey) THEN Ref("Response") ELSE Reject
        /\ \A v \in ChildValues : resolveChild(D, callKey, v) = result
        /\ \A from \in 0..Len(callKey) :
             RegExpTest(RegExpFlags(dialect), found, from, Len(callKey)) =
               [found |-> found, lastIndex |-> from]
        /\ callKey \in {<<"2", "0", "0">>, <<"2", "X", "X">>, <<"4", "x", "x">>, <<"2", "X", "0">>}
             => result = Ref("Response")
        /\ callKey \in {<<"X", "0", "0">>, <<"2", "0">>, <<"2", "0", "0", "0">>, <<>>,
                        <<"x", "-", "f", "o", "o">>}
             => result = Reject

C26_Witness ==
  /\ op = "resolveChild"
  /\ OnType({"part000"}, {"Responses"})
  /\ callKey = <<"2", "X", "0">>
  /\ callValue = VNull
  /\ result = Ref("Response")
  /\ resolveChild(CallNode, <<"X", "0", "0">>, VNull) = Reject

\* the rules of the OAS3 tables that look at the value
C27_ValueRules ==
  {<<"Schema", "items">>, <<"Schema", "additionalProperties">>,
   <<"AuthorizationCode", "x-usePkce">>}

\* C27: the rules of the OAS3 Schema and AuthorizationCode node types that
\* depend on the value never return undefined, so resolveChild never rejects their
\* keys: `items` resolves to a sequence of Schema for an array and to the
\* reference 'Schema' for every other value, `additionalProperties` to the leaf
\* {type: 'boolean'} for a boolean and to the reference 'Schema' otherwise,
\* `x-usePkce` to the leaf {type: 'boolean'} for a boolean and to the reference
\* 'XUsePkce' otherwise.
C27_ValueDependent ==
  /\ op = "resolveChild"
  /\ OnType(Oas3Dialects, {"Schema", "AuthorizationCode"})
  /\ <<callType, CallName>> \in C27_ValueRules
  =>
    LET D == CallNode
        name == CallName
        rule == D.properties[name]
        boolean == callValue.kind = "boolean"
    IN  /\ rule.kind = "Resolver"
        /\ ApplyResolver(rule.fn, callValue, callKey) # Undefined
        /\ result # Reject
        /\ name = "items" =>
             IF callValue.kind = "array"
             THEN /\ result.kind = "Node"
                  /\ result.node.container = "sequence"
                  /\ result.node.additionalProperties = Ref("Schema")
                  /\ DOMAIN result.node.properties = {}
             ELSE result = Ref("Schema")
        /\ name = "additionalProperties" =>
             result = IF boolean THEN Leaf([type |-> "boolean"]) ELSE Ref("Schema")
        /\ name = "x-usePkce" =>
             result = IF boolean THEN Leaf([type |-> "boolean"]) ELSE Ref("XUsePkce")

C27_Witness ==
  /\ op = "resolveChild"
  /\ OnType({"oas3"}, {"AuthorizationCode"})
  /\ CallName = "x-usePkce"
  /\ callValue = VString(<<"D", "o", "g">>)
  /\ result = Ref("XUsePkce")

\* the list each allowed() of the four bindings node types returns
C28_Allowed ==
  <<"http", "ws", "kafka", "anypointmq", "amqp", "amqp1", "mqtt", "mqtt5", "nats", "jms",
    "sns", "solace", "sqs", "stomp", "redis", "mercure", "ibmmq", "googlepubsub", "pulsar">>

\* the allowed protocols no assignment gives a property
C28_Unpatched ==
  {<<"s", "n", "s">>, <<"s", "q", "s">>, <<"i", "b", "m", "m", "q">>,
   <<"g", "o", "o", "g", "l", "e", "p", "u", "b", "s", "u", "b">>,
   <<"p", "u", "l", "s", "a", "r">>}

\* C28: once asyncapi2.ts is initialized, on each of the four bindings node
\* types every key of properties is in the list allowed() returns, so no patched
\* protocol is reported as disallowed; allowed() returns the same 19 protocol
\* names on all four and for every value; and the allowed names without a
\* property (sns, sqs, ibmmq, googlepubsub, pulsar) are resolved by
\* additionalProperties to the leaf {type: 'object'}, never rejected or reported.
C28_AllowedCoversProperties ==
  exported = "types" /\ OnType({"asyncapi2"}, BindingsTypes) =>
    LET D == CallNode
        A == KeysOf(D.allowed, callValue)
        unpatched == {Str(k) : k \in C28_Unpatched}
    IN  /\ DOMAIN D.properties \subseteq A
        /\ Len(C28_Allowed) = 19 /\ Cardinality(Range(C28_Allowed)) = 19
        /\ D.allowed.kind = "KeysFn"
        /\ \A v \in ChildValues \cup {VUndefined, callValue} :
             ApplyKeysFn(D.allowed.fn, v) = C28_Allowed
        /\ A \ DOMAIN D.properties = unpatched
        /\ op = "checkAllowed" =>
             /\ result \cap A = {}
             /\ \A k \in OwnKeys(callValue) \cap C28_Unpatched : \A v \in ChildValues :
                  resolveChild(D, k, v) = Leaf([type |-> "object"])
        /\ op = "resolveChild" =>
             /\ CallName \in A => result.kind \in {"Node", "Leaf"}
             /\ \A k \in C28_Unpatched :
                  resolveChild(D, k, callValue) = Leaf([type |-> "object"])

C28_Witness ==
  /\ exported = "types"
  /\ op = "checkAllowed"
  /\ OnType({"asyncapi2"}, {"ServerBindings"})
  /\ OwnKeys(callValue) = {<<"s", "n", "s">>, <<"k", "a", "f", "k", "a">>, <<"p", "u", "l", "s", "a", "r">>}
  /\ result = {}
  /\ "kafka" \in DOMAIN CallNode.properties
  /\ resolveChild(CallNode, <<"s", "n", "s">>, VObject({}, VUndefined)) = Leaf([type |-> "object"])

\* C29: on the SecurityScheme node type of each table, for every node value,
\* whatever its type is (none, an unknown one, 'httpApiKey', 'userPassword'), the
\* keys required(v) names are among those allowed(v) names, and these are keys of
\* properties; so a node that has exactly the required keys has no key missing,
\* no key outside the allow-list and no key resolveChild rejects.
C29_RequiredWithinAllowed ==
  op \in {"checkRequired", "checkAllowed"} /\ callType = "SecurityScheme" =>
    LET D == CallNode
        R == KeysOf(D.required, callValue)
        A == KeysOf(D.allowed, callValue)
    IN  /\ R # {}
        /\ R \subseteq A
        /\ A \subseteq DOMAIN D.properties
        /\ \A v \in ChildValues \cup {VUndefined} :
             /\ KeysOf(D.required, v) \subseteq KeysOf(D.allowed, v)
             /\ KeysOf(D.allowed, v) \subseteq DOMAIN D.properties
        /\ OwnNames(callValue) = R =>
             /\ result = {}
             /\ checkRequired(D, callValue) = {}
             /\ checkAllowed(D, callValue) = {}
             /\ \A k \in OwnKeys(callValue) : \A v \in ChildValues :
                  resolveChild(D, k, v).kind \in {"Ref", "Leaf"}

C29_Witness ==
  /\ op = "checkAllowed"
  /\ OnType({"asyncapi2"}, {"SecurityScheme"})
  /\ callValue = VObject({TypeKey, <<"n", "a", "m", "e">>, <<"i", "n">>},
                         VString(<<"h", "t", "t", "p", "A", "p", "i", "K", "e", "y">>))
  /\ result = {}
  /\ checkRequired(CallNode, callValue) = {}

\* the characters of the class [A-Za-z0-9_\-]
C30_ServerNameChars ==
  {"A", "B", "C", "D", "E", "F", "G", "H", "I", "J", "K", "L", "M", "N", "O",
   "P", "Q", "R", "S", "T", "U", "V", "W", "X", "Y", "Z", "a", "b", "c", "d",
   "e", "f", "g", "h", "i", "j", "k", "l", "m", "n", "o", "p", "q", "r", "s",
   "t", "u", "v", "w", "x", "y", "z", "0", "1", "2", "3", "4", "5", "6", "7",
   "8", "9", "_", "-"}

\* C30: on the AsyncAPI2 ServerMap node type resolveChild returns the reference
\* 'Server' for a key that is not empty and has only characters of A-Z, a-z, 0-9,
\* `_` and `-`, and rejects every other key (the empty key, a key with a `.`, a `/`
\* or a space); the AsyncAPI2 Message and MessageTrait node types, whose
\* additionalProperties is {}, and the OAS3 WebhooksMap reject no key.
C30_ServerNames ==
  op = "resolveChild" =>
    /\ OnType({"asyncapi2"}, {"ServerMap"}) =>
         /\ result = IF /\ callKey # <<>>
                        /\ \A i \in DOMAIN callKey : callKey[i] \in C30_ServerNameChars
                     THEN Ref("Server")
                     ELSE Reject
         /\ callKey \in {<<>>, <<"m", "y", ".", "s", "e", "r", "v", "e", "r">>, <<"a", " ", "b">>,
                         <<"/", "p", "e", "t", "s">>, <<"p", "/", "q">>}
              => result = Reject
    /\ OnType({"asyncapi2"}, {"Message", "MessageTrait"}) =>
         LET D == CallNode
         IN  /\ D.additionalProperties = Leaf(<<>>)
             /\ result # Reject
             /\ CallName \notin DOMAIN D.properties => result = Leaf(<<>>)
    /\ OnType(Oas3Dialects, {"WebhooksMap"}) => result = Ref("PathItem")

C30_Witness ==
  /\ op = "resolveChild"
  /\ OnType({"asyncapi2"}, {"ServerMap"})
  /\ callKey = <<"m", "y", "-", "s", "e", "r", "v", "e", "r", "_", "1">>
  /\ result = Ref("Server")
  /\ resolveChild(CallNode, <<"m", "y", ".", "s", "e", "r", "v", "e", "r">>, callValue) = Reject
  /\ resolveChild(lookup("asyncapi2", "Message"), <<"a", " ", "b">>, callValue) = Leaf(<<>>)
=============================================================================
